---- MODULE Spec2Model ----
(***************************************************************************)
(* Model of the postgres-mcp diagnostic tools.                             *)
(*                                                                         *)
(* Part 1: comprehensive_database_analysis                                 *)
(* (tools/comprehensiveDatabaseAnalysis.ts).  The handler issues six       *)
(* catalog queries one after the other; every action below is one query    *)
(* result arriving together with all the synchronous code that runs until  *)
(* the next query is issued.  The last action also computes the health     *)
(* score and the workflow and returns the report, since no query is        *)
(* awaited after the never-analyzed query.                                 *)
(*                                                                         *)
(* Text payloads (issue text, reasons, descriptions) are kept as tuples    *)
(* <<template, arguments...>> of what the template strings interpolate.    *)
(*                                                                         *)
(* Part 2: the duplicate-index scan of suggest_indexing_strategies         *)
(* (SpecIndexes).  Part 3: the read-only gate and the LIMIT suffix of      *)
(* execute_query (SpecQuery).  Part 4: startup and shutdown of the server  *)
(* process (SpecServer).  Part 5: the queries, errors and defaults of the  *)
(* tools that read the catalog (SpecTools).  Part 6: the rules that turn    *)
(* catalog statistics into findings (SpecRules).  Part 7: the analysis     *)
(* called twice in one process (SpecRerun).  Every part has its own        *)
(* variables and its own specification; the variables of the other parts   *)
(* stay at their initial value.                                            *)
(***************************************************************************)
EXTENDS Integers, Sequences, FiniteSets, TLC

(***************************************************************************)
(* Bounds of the model.                                                    *)
(***************************************************************************)
\* number of user tables the catalog may report
MaxTables == 7

(***************************************************************************)
(* Program constants.                                                      *)
(***************************************************************************)
\* let health_score = 100
InitialScore == 100
\* health_score -= 20 for a critical issue
CriticalPenalty == 20
\* health_score -= 10 for a high issue
HighPenalty == 10
\* health_score -= 5 for a medium issue
MediumPenalty == 5
\* tables_requiring_attention.slice(0, 5)
TopN == 5
\* step: 1000 of the "remaining tables" step
OverflowStep == 1000

Min(a, b) == IF a < b THEN a ELSE b
Max(a, b) == IF a > b THEN a ELSE b

(***************************************************************************)
(* Catalog rows.  pg_stat_user_tables has one row per user table, so a     *)
(* result never names the same (schemaname, relname) twice.  Table k of    *)
(* the catalog: two schemas share the relation names.                      *)
(***************************************************************************)
Table(k) ==
  [schemaname |-> IF k % 2 = 1 THEN "public" ELSE "app", relname |-> (k + 1) \div 2]

Tables == {Table(k) : k \in 1..MaxTables}

\* rows a..b of the catalog in ascending / descending order
RowsAsc(a, b) == [i \in 1..(b - a + 1) |-> Table(a + i - 1)]
RowsDesc(a, b) == [i \in 1..(b - a + 1) |-> Table(b - i + 1)]

\* the result sets a query over pg_stat_user_tables is drawn from
RowLists ==
  {<<>>} \cup {RowsAsc(a, b) : a \in 1..MaxTables, b \in 1..MaxTables}
         \cup {RowsDesc(a, b) : a \in 1..MaxTables, b \in 1..MaxTables}

\* the high-seq-scan result (ORDER BY seq_scan DESC): rows a..b of the catalog;
\* the bloat result below comes in either order relative to it
SeqScanRowLists == {<<>>} \cup {RowsAsc(a, b) : a \in 1..MaxTables, b \in 1..MaxTables}

\* the never-analyzed result (no ORDER BY): no table, one table, or every table
NeverAnalyzedRowLists == {RowsAsc(1, k) : k \in {0, 1, MaxTables}}

\* COUNT(*) results, parsed by parseInt
Counts == {0, 3}

\* `${r.schemaname}.${r.relname}`
QualifiedName(r) == <<r.schemaname, r.relname>>

Range(s) == {s[i] : i \in 1..Len(s)}

(***************************************************************************)
(* State of one call of comprehensiveDatabaseAnalysis.  The last two        *)
(* variables are facts of the database the call runs against: they are     *)
(* what getDatabaseHealth counts as invalid_constraints and                *)
(* sequences_at_risk; comprehensiveDatabaseAnalysis issues no query that   *)
(* reads them.                                                             *)
(***************************************************************************)
VARIABLES
  pc,                          \* position of the handler
  critical_issues,             \* const critical_issues = []
  tables_requiring_attention,  \* const tables_requiring_attention = []
  quick_wins,                  \* const quick_wins = []
  unusedIndexCount,            \* parseInt(unusedIndexesResult.rows[0].count)
  highSeqScanRows,             \* highSeqScanResult.rows
  unindexedFKCount,            \* parseInt(unindexedFKResult.rows[0].count)
  bloatedRows,                 \* bloatedTablesResult.rows
  neverAnalyzedRows,           \* neverAnalyzedResult.rows
  health_score,                \* summary.overall_health_score
  criticalCount,               \* summary.critical_issues
  warningCount,                \* summary.warnings
  analysis_workflow,           \* analysis_workflow of the report
  invalid_constraints,         \* database: constraints with NOT convalidated
  sequences_at_risk            \* database: sequences above 75% of max_value

analysisVars ==
  <<pc, critical_issues, tables_requiring_attention, quick_wins, unusedIndexCount,
    highSeqScanRows, unindexedFKCount, bloatedRows, neverAnalyzedRows, health_score,
    criticalCount, warningCount, analysis_workflow, invalid_constraints,
    sequences_at_risk>>

(***************************************************************************)
(* State of the duplicate-index scan of one suggestIndexingStrategies call. *)
(***************************************************************************)
VARIABLES
  indexPc,            \* position: "stats" before the index query returns, "scanned" after
  index_usage_stats,  \* const index_usage_stats: IndexUsageStats[]
  duplicate_indexes   \* const duplicate_indexes: DuplicateIndex[]

indexVars == <<indexPc, index_usage_stats, duplicate_indexes>>

(***************************************************************************)
(* State of one execute_query call (executeQueryTool).  Texts are          *)
(* sequences of one-character strings.                                     *)
(***************************************************************************)
VARIABLES
  queryPc,      \* "called", then "rejected" by the gate or "sent", then "returned" or "failed"
  input,        \* input: ExecuteQueryInput, a record with query and, if given, maxRows
  finalQuery,   \* let finalQuery: the text handed to executeQuery
  warning,      \* let warning: string | undefined
  rowCount,     \* rowCount: result.rows.length
  query_error   \* the message of the Error thrown, <<>> if none

queryVars == <<queryPc, input, finalQuery, warning, rowCount, query_error>>

(***************************************************************************)
(* State of the server process (index.ts main, db.ts pool).                *)
(***************************************************************************)
VARIABLES
  serverPc,             \* "main", "testing", "connecting", "serving", "exited"
  database_url,         \* process.env.DATABASE_URL is set
  database_reachable,   \* database: the test query can be answered
  readonly_mode,        \* database: current_setting('default_transaction_read_only') of the connection
  pool,                 \* let pool: "null", "open" or "ending" (pool.end() awaited)
  warned,               \* console.warn('... not in read-only mode') was written
  exit_code,            \* process.exit code, -1 while the process runs
  handlers_registered,  \* server.setRequestHandler calls are done
  transport_connected,  \* server.connect(transport) has completed
  in_flight,            \* requests being handled
  handled,              \* requests answered
  signals,              \* SIGINT/SIGTERM delivered
  end_calls             \* calls of pool.end()

serverVars ==
  <<serverPc, database_url, database_reachable, readonly_mode, pool, warned, exit_code,
    handlers_registered, transport_connected, in_flight, handled, signals, end_calls>>

(***************************************************************************)
(* State of one call of a tool that reads the catalog through executeQuery. *)
(***************************************************************************)
VARIABLES
  toolPc,              \* "called", "running" (a query is awaited), "returned", "failed"
  tool,                \* name of the tool called
  tool_input,          \* the input object: a record of the arguments given
  tool_database,       \* database: the facts the queries of the call read
  remaining,           \* queries of the call not yet answered, the awaited one first
  queries_issued,      \* queries handed to executeQuery so far, in order
  defaults_used,       \* queries whose missing or failed result was replaced by default values
  performance_issues,  \* findings pushed so far
  recommendations,     \* recommendations pushed so far
  query_failures,      \* queries executeQuery has thrown for, in order
  tool_error           \* the message of the Error thrown, <<>> if none

toolVars ==
  <<toolPc, tool, tool_input, tool_database, remaining, queries_issued, defaults_used,
    performance_issues, recommendations, query_failures, tool_error>>

(***************************************************************************)
(* State of one evaluation of a rule that turns catalog statistics into a  *)
(* finding: the rule, the statistics the database holds, and what the tool *)
(* put into its result.                                                    *)
(***************************************************************************)
VARIABLES
  rulePc,      \* "reading" until the statistics query is answered, then "reported"
  rule,        \* the tool and the check of it that runs
  stat_rows,   \* database: the statistics the check reads
  finding      \* what the check added to the result of the tool

ruleVars == <<rulePc, rule, stat_rows, finding>>

(***************************************************************************)
(* What is known of an earlier call when comprehensiveDatabaseAnalysis is  *)
(* called again in the same process.                                       *)
(***************************************************************************)
VARIABLES
  run,           \* 1 during the first call of the process, 2 during the next one
  first_report   \* the rows the first call was given and the report it returned

rerunVars == <<run, first_report>>

\* the variables of the parts other than comprehensive_database_analysis
otherThanAnalysisVars == <<indexVars, queryVars, serverVars, toolVars, ruleVars, rerunVars>>

\* the variables of the parts other than the duplicate-index scan
otherThanIndexVars == <<analysisVars, queryVars, serverVars, toolVars, ruleVars, rerunVars>>

\* the variables of the parts other than execute_query
otherThanQueryVars == <<analysisVars, indexVars, serverVars, toolVars, ruleVars, rerunVars>>

\* the variables of the parts other than the server process
otherThanServerVars == <<analysisVars, indexVars, queryVars, toolVars, ruleVars, rerunVars>>

\* the variables of the parts other than the catalog tool call
otherThanToolVars == <<analysisVars, indexVars, queryVars, serverVars, ruleVars, rerunVars>>

\* the variables of the parts other than the rule evaluation
otherThanRuleVars == <<analysisVars, indexVars, queryVars, serverVars, toolVars, rerunVars>>

\* the variables of the parts other than the record of the first call
otherThanRerunVars == <<indexVars, queryVars, serverVars, toolVars, ruleVars>>

vars == <<analysisVars, indexVars, queryVars, serverVars, toolVars, ruleVars, rerunVars>>

\* no suggestIndexingStrategies call is under way
IndexesIdle ==
  /\ indexPc = "idle"
  /\ index_usage_stats = <<>>
  /\ duplicate_indexes = <<>>

\* no execute_query call is under way
QueryIdle ==
  /\ queryPc = "idle"
  /\ input = <<>>
  /\ finalQuery = <<>>
  /\ warning = <<>>
  /\ rowCount = 0
  /\ query_error = <<>>

\* the server process is not looked at
ServerIdle ==
  /\ serverPc = "idle"
  /\ database_url = TRUE
  /\ database_reachable = TRUE
  /\ readonly_mode = "on"
  /\ pool = "null"
  /\ warned = FALSE
  /\ exit_code = -1
  /\ handlers_registered = FALSE
  /\ transport_connected = FALSE
  /\ in_flight = 0
  /\ handled = 0
  /\ signals = 0
  /\ end_calls = 0

\* no catalog tool call is under way
ToolIdle ==
  /\ toolPc = "idle"
  /\ tool = "none"
  /\ tool_input = <<>>
  /\ tool_database = <<>>
  /\ remaining = <<>>
  /\ queries_issued = <<>>
  /\ defaults_used = {}
  /\ performance_issues = <<>>
  /\ recommendations = <<>>
  /\ query_failures = <<>>
  /\ tool_error = <<>>

\* no rule evaluation is looked at
RulesIdle ==
  /\ rulePc = "idle"
  /\ rule = "none"
  /\ stat_rows = <<>>
  /\ finding = <<>>

\* the call looked at is the first one of the process
FirstCall ==
  /\ run = 1
  /\ first_report = <<>>

\* critical_issues.unshift(issue): the new issue goes to the front
PushIssueFront(issues, issue) == <<issue>> \o issues

\* critical_issues.push(issue)
PushIssue(issues, issue) == Append(issues, issue)

(***************************************************************************)
(* Issue 1: unused indexes.                                                *)
(***************************************************************************)
UnusedIndexIssue(n) ==
  [severity |-> "high", category |-> "Performance",
   issue |-> <<"unused indexes wasting", n>>,
   affected_objects |-> <<<<"Multiple tables">>>>,
   recommended_tool |-> "suggest_indexing_strategies"]

(***************************************************************************)
(* Issue 2: tables with high sequential scans.                             *)
(***************************************************************************)
HighSeqScanIssue(rows) ==
  [severity |-> "critical", category |-> "Performance",
   issue |-> <<"tables have excessive sequential scans", Len(rows)>>,
   affected_objects |-> [i \in 1..Len(rows) |-> QualifiedName(rows[i])],
   recommended_tool |-> "suggest_indexing_strategies"]

\* the entry pushed for one high-seq-scan row
SeqScanEntry(row) ==
  [schema |-> row.schemaname, table |-> row.relname,
   reasons |-> <<"High sequential scans">>,
   priority |-> "critical",
   suggested_tools |-> <<"get_query_statistics", "suggest_indexing_strategies">>]

\* for (const row of highSeqScanResult.rows) tables_requiring_attention.push(...)
PushSeqScanRows(tra, rows) == tra \o [i \in 1..Len(rows) |-> SeqScanEntry(rows[i])]

(***************************************************************************)
(* Issue 3: unindexed foreign keys.                                        *)
(***************************************************************************)
UnindexedFKIssue(n) ==
  [severity |-> "critical", category |-> "Performance",
   issue |-> <<"foreign keys without indexes", n>>,
   affected_objects |-> <<<<"Multiple tables">>>>,
   recommended_tool |-> "suggest_indexing_strategies"]

(***************************************************************************)
(* Issue 4: bloated tables.                                                *)
(***************************************************************************)
\* `${r.schemaname}.${r.relname} (${r.bloat_pct}% bloat)`
BloatObject(r) == <<r.schemaname, r.relname, "% bloat">>

BloatedIssue(rows) ==
  [severity |-> "high", category |-> "Maintenance",
   issue |-> <<"tables have >10% bloat", Len(rows)>>,
   affected_objects |-> [i \in 1..Len(rows) |-> BloatObject(rows[i])],
   recommended_tool |-> "get_query_statistics"]

\* tables_requiring_attention.find(t => t.schema === ... && t.table === ...):
\* the position of the first match, 0 when there is none
FindTable(tra, row) ==
  LET hits == {i \in 1..Len(tra) :
                 tra[i].schema = row.schemaname /\ tra[i].table = row.relname}
  IN IF hits = {} THEN 0 ELSE CHOOSE i \in hits : \A j \in hits : i <= j

\* the entry pushed for a bloated row that has no entry yet
BloatEntry(row) ==
  [schema |-> row.schemaname, table |-> row.relname,
   reasons |-> <<"High bloat">>,
   priority |-> "high",
   suggested_tools |-> <<"get_query_statistics", "suggest_schema_optimizations">>]

\* a merge that pushes a new entry without looking for an existing one
MergeBloatRowAlwaysPush(tra, row) == Append(tra, BloatEntry(row))

\* the body of the loop over bloatedTablesResult.rows
MergeBloatRow(tra, row) ==
  LET k == FindTable(tra, row)
  IN IF k # 0
       THEN [tra EXCEPT ![k].reasons = Append(@, "High bloat"),
                        ![k].suggested_tools = Append(@, "get_query_statistics")]
       ELSE Append(tra, BloatEntry(row))

RECURSIVE MergeBloatRows(_, _)
MergeBloatRows(tra, rows) ==
  IF rows = <<>> THEN tra
  ELSE MergeBloatRows(MergeBloatRow(tra, Head(rows)), Tail(rows))

(***************************************************************************)
(* Issue 5: tables never analyzed.                                         *)
(***************************************************************************)
NeverAnalyzedIssue(rows) ==
  [severity |-> "high", category |-> "Maintenance",
   issue |-> <<"tables have never been analyzed", Len(rows)>>,
   affected_objects |-> [i \in 1..Len(rows) |-> QualifiedName(rows[i])],
   recommended_tool |-> "get_query_statistics"]

(***************************************************************************)
(* Health score: the loop over critical_issues and Math.max(0, ...).       *)
(***************************************************************************)
\* a scorer that charges a high issue as if it were medium
PenaltyHighAsMedium(severity) ==
  IF severity = "critical" THEN CriticalPenalty
  ELSE IF severity = "high" THEN MediumPenalty
  ELSE IF severity = "medium" THEN MediumPenalty
  ELSE 0

Penalty(severity) ==
  IF severity = "critical" THEN CriticalPenalty
  ELSE IF severity = "high" THEN HighPenalty
  ELSE IF severity = "medium" THEN MediumPenalty
  ELSE 0

RECURSIVE ScoreLoop(_, _)
ScoreLoop(issues, score) ==
  IF issues = <<>> THEN score
  ELSE ScoreLoop(Tail(issues), score - Penalty(Head(issues).severity))

HealthScore(issues) == Max(0, ScoreLoop(issues, InitialScore))

\* criticalCount++ on critical
CriticalCount(issues) ==
  Cardinality({i \in 1..Len(issues) : issues[i].severity = "critical"})

\* warningCount++ on high and on medium
WarningCount(issues) ==
  Cardinality({i \in 1..Len(issues) : issues[i].severity \in {"high", "medium"}})

(***************************************************************************)
(* Workflow.                                                               *)
(***************************************************************************)
FixedSteps ==
  << [step |-> 1, description |-> <<"Get overall database health assessment">>,
      tool_to_use |-> "get_database_health", parameters |-> <<>>],
     [step |-> 2, description |-> <<"Identify slow queries">>,
      tool_to_use |-> "analyze_query_performance", parameters |-> <<>>] >>

\* slice(-5): the last five entries instead of the first five
TopTablesLast(tra) == SubSeq(tra, Max(1, Len(tra) - TopN + 1), Len(tra))

\* tables_requiring_attention.slice(0, 5)
TopTables(tra) == SubSeq(tra, 1, Min(Len(tra), TopN))

\* step numbers that advance by one per table instead of three
TableStepsBadNumbering(table, index) ==
  << [step |-> 3 + index,
      description |-> <<"Analyze", table.schema, table.table, table.reasons>>,
      tool_to_use |-> "get_query_statistics",
      parameters |-> <<table.schema, table.table>>],
     [step |-> 4 + index,
      description |-> <<"Get indexing analysis for", table.schema, table.table>>,
      tool_to_use |-> "suggest_indexing_strategies",
      parameters |-> <<table.schema, table.table>>],
     [step |-> 5 + index,
      description |-> <<"Get schema optimization suggestions for", table.schema, table.table>>,
      tool_to_use |-> "suggest_schema_optimizations",
      parameters |-> <<table.schema, table.table>>] >>

\* the indexing step pushed before the statistics step
TableStepsSwapped(table, index) ==
  << [step |-> 3 + index * 3,
      description |-> <<"Get indexing analysis for", table.schema, table.table>>,
      tool_to_use |-> "suggest_indexing_strategies",
      parameters |-> <<table.schema, table.table>>],
     [step |-> 4 + index * 3,
      description |-> <<"Analyze", table.schema, table.table, table.reasons>>,
      tool_to_use |-> "get_query_statistics",
      parameters |-> <<table.schema, table.table>>],
     [step |-> 5 + index * 3,
      description |-> <<"Get schema optimization suggestions for", table.schema, table.table>>,
      tool_to_use |-> "suggest_schema_optimizations",
      parameters |-> <<table.schema, table.table>>] >>

\* the three steps pushed by the forEach callback for (table, index);
\* index is 0-based as in the source
TableSteps(table, index) ==
  << [step |-> 3 + index * 3,
      description |-> <<"Analyze", table.schema, table.table, table.reasons>>,
      tool_to_use |-> "get_query_statistics",
      parameters |-> <<table.schema, table.table>>],
     [step |-> 4 + index * 3,
      description |-> <<"Get indexing analysis for", table.schema, table.table>>,
      tool_to_use |-> "suggest_indexing_strategies",
      parameters |-> <<table.schema, table.table>>],
     [step |-> 5 + index * 3,
      description |-> <<"Get schema optimization suggestions for", table.schema, table.table>>,
      tool_to_use |-> "suggest_schema_optimizations",
      parameters |-> <<table.schema, table.table>>] >>

RECURSIVE PerTableSteps(_, _)
PerTableSteps(top, index) ==
  IF index >= Len(top) THEN <<>>
  ELSE TableSteps(top[index + 1], index) \o PerTableSteps(top, index + 1)

\* the "remaining" step pushed from five tables on (>= instead of >)
RemainingStepFromFive(tra) ==
  IF Len(tra) >= TopN
    THEN << [step |-> OverflowStep,
             description |-> <<"Repeat steps for remaining tables", Len(tra) - TopN>>,
             tool_to_use |-> "Multiple tools", parameters |-> <<>>] >>
    ELSE <<>>

\* the "remaining" step that reports the total instead of the remainder
RemainingStepTotal(tra) ==
  IF Len(tra) > TopN
    THEN << [step |-> OverflowStep,
             description |-> <<"Repeat steps for remaining tables", Len(tra)>>,
             tool_to_use |-> "Multiple tools", parameters |-> <<>>] >>
    ELSE <<>>

\* if (tables_requiring_attention.length > 5) push the "remaining" step
RemainingStep(tra) ==
  IF Len(tra) > TopN
    THEN << [step |-> OverflowStep,
             description |-> <<"Repeat steps for remaining tables", Len(tra) - TopN>>,
             tool_to_use |-> "Multiple tools", parameters |-> <<>>] >>
    ELSE <<>>

AnalysisWorkflow(tra) ==
  FixedSteps \o PerTableSteps(TopTables(tra), 0) \o RemainingStep(tra)

(***************************************************************************)
(* The handler.                                                            *)
(***************************************************************************)
Init ==
  /\ pc = "size"
  /\ critical_issues = <<>>
  /\ tables_requiring_attention = <<>>
  /\ quick_wins = <<>>
  /\ unusedIndexCount = 0
  /\ highSeqScanRows = <<>>
  /\ unindexedFKCount = 0
  /\ bloatedRows = <<>>
  /\ neverAnalyzedRows = <<>>
  /\ health_score = InitialScore
  /\ criticalCount = 0
  /\ warningCount = 0
  /\ analysis_workflow = <<>>
  /\ invalid_constraints \in Counts
  /\ sequences_at_risk \in Counts
  /\ IndexesIdle
  /\ QueryIdle
  /\ ServerIdle
  /\ ToolIdle
  /\ RulesIdle
  /\ FirstCall

\* the database-size query returns; total_tables and total_size are copied
\* into the summary and read by nothing else
QuerySize ==
  /\ pc = "size"
  /\ pc' = "unused_indexes"
  /\ UNCHANGED <<critical_issues, tables_requiring_attention, quick_wins,
                 unusedIndexCount, highSeqScanRows, unindexedFKCount, bloatedRows,
                 neverAnalyzedRows, health_score, criticalCount, warningCount,
                 analysis_workflow, invalid_constraints, sequences_at_risk>>
  /\ UNCHANGED otherThanAnalysisVars

CheckUnusedIndexes ==
  /\ pc = "unused_indexes"
  /\ \E n \in Counts :
       /\ unusedIndexCount' = n
       /\ IF n > 0
            THEN /\ critical_issues' = PushIssue(critical_issues, UnusedIndexIssue(n))
                 /\ quick_wins' = Append(quick_wins, <<"Drop unused indexes", n>>)
            ELSE UNCHANGED <<critical_issues, quick_wins>>
  /\ pc' = "high_seq_scan"
  /\ UNCHANGED <<tables_requiring_attention, highSeqScanRows, unindexedFKCount,
                 bloatedRows, neverAnalyzedRows, health_score, criticalCount,
                 warningCount, analysis_workflow, invalid_constraints,
                 sequences_at_risk>>
  /\ UNCHANGED otherThanAnalysisVars

CheckHighSeqScans ==
  /\ pc = "high_seq_scan"
  /\ \E rows \in SeqScanRowLists :
       /\ highSeqScanRows' = rows
       /\ IF Len(rows) > 0
            THEN /\ critical_issues' = PushIssue(critical_issues, HighSeqScanIssue(rows))
                 /\ tables_requiring_attention' =
                      PushSeqScanRows(tables_requiring_attention, rows)
            ELSE UNCHANGED <<critical_issues, tables_requiring_attention>>
  /\ pc' = "unindexed_fk"
  /\ UNCHANGED <<quick_wins, unusedIndexCount, unindexedFKCount, bloatedRows,
                 neverAnalyzedRows, health_score, criticalCount, warningCount,
                 analysis_workflow, invalid_constraints, sequences_at_risk>>
  /\ UNCHANGED otherThanAnalysisVars

CheckUnindexedFKs ==
  /\ pc = "unindexed_fk"
  /\ \E n \in Counts :
       /\ unindexedFKCount' = n
       /\ IF n > 0
            THEN /\ critical_issues' = PushIssue(critical_issues, UnindexedFKIssue(n))
                 /\ quick_wins' = Append(quick_wins, <<"Add indexes to foreign key columns", n>>)
            ELSE UNCHANGED <<critical_issues, quick_wins>>
  /\ pc' = "bloat"
  /\ UNCHANGED <<tables_requiring_attention, unusedIndexCount, highSeqScanRows,
                 bloatedRows, neverAnalyzedRows, health_score, criticalCount,
                 warningCount, analysis_workflow, invalid_constraints,
                 sequences_at_risk>>
  /\ UNCHANGED otherThanAnalysisVars

CheckBloatedTables ==
  /\ pc = "bloat"
  /\ \E rows \in RowLists :
       /\ bloatedRows' = rows
       /\ IF Len(rows) > 0
            THEN /\ critical_issues' = PushIssue(critical_issues, BloatedIssue(rows))
                 /\ tables_requiring_attention' =
                      MergeBloatRows(tables_requiring_attention, rows)
            ELSE UNCHANGED <<critical_issues, tables_requiring_attention>>
  /\ pc' = "never_analyzed"
  /\ UNCHANGED <<quick_wins, unusedIndexCount, highSeqScanRows, unindexedFKCount,
                 neverAnalyzedRows, health_score, criticalCount, warningCount,
                 analysis_workflow, invalid_constraints, sequences_at_risk>>
  /\ UNCHANGED otherThanAnalysisVars

\* the never-analyzed result arrives; the rest of the handler is synchronous:
\* health score, workflow, return
CheckNeverAnalyzed ==
  /\ pc = "never_analyzed"
  /\ \E rows \in NeverAnalyzedRowLists :
       LET issues == IF Len(rows) > 0
                       THEN PushIssue(critical_issues, NeverAnalyzedIssue(rows))
                       ELSE critical_issues
       IN /\ neverAnalyzedRows' = rows
          /\ critical_issues' = issues
          /\ health_score' = HealthScore(issues)
          /\ criticalCount' = CriticalCount(issues)
          /\ warningCount' = WarningCount(issues)
  /\ analysis_workflow' = AnalysisWorkflow(tables_requiring_attention)
  /\ pc' = "done"
  /\ UNCHANGED <<tables_requiring_attention, quick_wins, unusedIndexCount,
                 highSeqScanRows, unindexedFKCount, bloatedRows,
                 invalid_constraints, sequences_at_risk>>
  /\ UNCHANGED otherThanAnalysisVars

\* executeQuery rethrows a failed query; the handler has no try/catch, so the
\* call fails and no report is returned
QueryFails ==
  /\ pc \in {"size", "unused_indexes", "high_seq_scan", "unindexed_fk", "bloat",
             "never_analyzed"}
  /\ pc' = "failed"
  /\ UNCHANGED <<critical_issues, tables_requiring_attention, quick_wins,
                 unusedIndexCount, highSeqScanRows, unindexedFKCount, bloatedRows,
                 neverAnalyzedRows, health_score, criticalCount, warningCount,
                 analysis_workflow, invalid_constraints, sequences_at_risk>>
  /\ UNCHANGED otherThanAnalysisVars

Next ==
  \/ QuerySize
  \/ CheckUnusedIndexes
  \/ CheckHighSeqScans
  \/ CheckUnindexedFKs
  \/ CheckBloatedTables
  \/ CheckNeverAnalyzed
  \/ QueryFails

Spec == Init /\ [][Next]_vars

(***************************************************************************)
(* Properties of comprehensive_database_analysis.                          *)
(***************************************************************************)
Returned == pc = "done"

SeverityRank(sev) ==
  IF sev = "critical" THEN 3 ELSE IF sev = "high" THEN 2 ELSE IF sev = "medium" THEN 1 ELSE 0

NumWithSeverity(issues, sev) ==
  Cardinality({i \in 1..Len(issues) : issues[i].severity = sev})

\* the issue list rearranged by the permutation p of its positions
Permuted(issues, p) == [i \in 1..Len(issues) |-> issues[p[i]]]

\* C1: the reported overall_health_score is
\* clamp(100 - 20*critical - 10*high - 5*medium - 0*low, 0, 100) of the issue
\* list, and scoring any permutation of the issue list gives the same score.
C1_HealthScoreIsClampedPenaltySum ==
  Returned =>
    /\ health_score =
         Max(0, Min(100, 100 - 20 * NumWithSeverity(critical_issues, "critical")
                             - 10 * NumWithSeverity(critical_issues, "high")
                             - 5 * NumWithSeverity(critical_issues, "medium")
                             - 0 * NumWithSeverity(critical_issues, "low")))
    /\ \A p \in Permutations(1..Len(critical_issues)) :
         HealthScore(Permuted(critical_issues, p)) = health_score

\* all five evaluators fired: two critical and three high issues were scored
C1_Witness ==
  /\ Returned
  /\ NumWithSeverity(critical_issues, "critical") = 2
  /\ NumWithSeverity(critical_issues, "high") = 3
  /\ health_score = 30

\* the (schema, table) pair of an attention entry
EntryTable(e) == <<e.schema, e.table>>

\* the severity of the finding that contributes the given reason
ReasonSeverity(reason) ==
  IF reason = "High sequential scans" THEN HighSeqScanIssue(<<>>).severity
  ELSE BloatedIssue(<<>>).severity

\* the strongest severity among the findings behind the reasons of an entry
MaxReasonSeverity(e) ==
  CHOOSE sev \in {ReasonSeverity(e.reasons[i]) : i \in 1..Len(e.reasons)} :
    \A i \in 1..Len(e.reasons) :
      SeverityRank(ReasonSeverity(e.reasons[i])) <= SeverityRank(sev)

\* the tables of the table-scoped findings merged so far
FlaggedTables ==
  {QualifiedName(r) : r \in Range(highSeqScanRows) \cup Range(bloatedRows)}

OneEntryPerTable ==
  /\ \A i, j \in 1..Len(tables_requiring_attention) :
       EntryTable(tables_requiring_attention[i]) = EntryTable(tables_requiring_attention[j])
         => i = j
  /\ {EntryTable(tables_requiring_attention[i]) :
        i \in 1..Len(tables_requiring_attention)} = FlaggedTables

PriorityIsMaxSeverity ==
  \A i \in 1..Len(tables_requiring_attention) :
    LET e == tables_requiring_attention[i]
    IN /\ e.reasons # <<>>
       /\ e.priority = MaxReasonSeverity(e)

\* a step keeps every existing entry in place, for the same table, with a
\* priority at least as strong
PriorityNeverLowered ==
  \A i \in 1..Len(tables_requiring_attention) :
    /\ i <= Len(tables_requiring_attention')
    /\ EntryTable(tables_requiring_attention'[i]) = EntryTable(tables_requiring_attention[i])
    /\ SeverityRank(tables_requiring_attention'[i].priority)
         >= SeverityRank(tables_requiring_attention[i].priority)

\* C2: after every merge of table-scoped findings (high-seq-scan rows, then
\* bloated rows) tables_requiring_attention has exactly one entry per distinct
\* flagged (schema, table) pair, each entry's priority is the maximum severity
\* among the findings that gave it a reason, and no step lowers the priority
\* of an existing entry.
C2_OneEntryPerTableMaxPriority ==
  /\ [](OneEntryPerTable /\ PriorityIsMaxSeverity)
  /\ [][PriorityNeverLowered]_vars

\* a table found by both evaluators: one critical entry with two reasons, next
\* to an entry for the table of the same name in the other schema
C2_Witness ==
  /\ pc = "never_analyzed"
  /\ \E i, j \in 1..Len(tables_requiring_attention) :
       /\ Len(tables_requiring_attention[i].reasons) = 2
       /\ tables_requiring_attention[i].priority = "critical"
       /\ tables_requiring_attention[j].priority = "high"
       /\ tables_requiring_attention[i].table = tables_requiring_attention[j].table
       /\ tables_requiring_attention[i].schema # tables_requiring_attention[j].schema

\* the table an affected object of an issue names; <<>> for "Multiple tables"
ObjectTable(obj) == IF Len(obj) >= 2 THEN <<obj[1], obj[2]>> ELSE <<>>

\* the tables named by the affected objects of the issues
IssueTables ==
  UNION {{ObjectTable(obj) : obj \in Range(critical_issues[i].affected_objects)} :
           i \in 1..Len(critical_issues)} \ {<<>>}

AttentionTables ==
  {EntryTable(tables_requiring_attention[i]) : i \in 1..Len(tables_requiring_attention)}

\* C3: in every report, every table named in the affected objects of an issue
\* (high sequential scans, bloat, never analyzed) has an entry in
\* tables_requiring_attention, and every entry names a table that some issue
\* names.
C3_AttentionCoversIssueTables ==
  Returned => AttentionTables = IssueTables

\* the other half alone: every attention entry is for a table some issue names
C3_AttentionEntriesHaveAnIssue ==
  Returned => AttentionTables \subseteq IssueTables

\* the sequence without the later repetitions of its elements
RECURSIVE Dedup(_)
Dedup(seq) ==
  IF seq = <<>> THEN <<>>
  ELSE LET init == Dedup(SubSeq(seq, 1, Len(seq) - 1))
           last == seq[Len(seq)]
       IN IF last \in Range(init) THEN init ELSE Append(init, last)

NoDuplicates(seq) == \A i, j \in 1..Len(seq) : seq[i] = seq[j] => i = j

\* the tools and the reason each finding brings for a table
FindingTools(reason) ==
  IF reason = "High sequential scans"
    THEN SeqScanEntry(Table(1)).suggested_tools
    ELSE BloatEntry(Table(1)).suggested_tools

\* the reasons of the findings for a table, in discovery order
ExpectedReasons(t) ==
  (IF t \in {QualifiedName(r) : r \in Range(highSeqScanRows)}
     THEN <<"High sequential scans">> ELSE <<>>)
  \o (IF t \in {QualifiedName(r) : r \in Range(bloatedRows)}
        THEN <<"High bloat">> ELSE <<>>)

RECURSIVE ToolsOfReasons(_)
ToolsOfReasons(reasons) ==
  IF reasons = <<>> THEN <<>>
  ELSE FindingTools(Head(reasons)) \o ToolsOfReasons(Tail(reasons))

\* C4: for every attention entry, suggested_tools names no tool twice and is
\* the duplicate-free union, in insertion order, of the tools of the findings
\* merged into it; reasons holds one string per contributing finding in
\* discovery order.
C4_SuggestedToolsDuplicateFreeUnion ==
  \A i \in 1..Len(tables_requiring_attention) :
    LET e == tables_requiring_attention[i]
    IN /\ NoDuplicates(e.suggested_tools)
       /\ e.suggested_tools = Dedup(ToolsOfReasons(ExpectedReasons(EntryTable(e))))
       /\ e.reasons = ExpectedReasons(EntryTable(e))

\* the reasons half alone
C4_ReasonsInDiscoveryOrder ==
  \A i \in 1..Len(tables_requiring_attention) :
    tables_requiring_attention[i].reasons
      = ExpectedReasons(EntryTable(tables_requiring_attention[i]))

\* the entries of the given priority, in discovery order
WithPriority(tra, sev) == SelectSeq(tra, LAMBDA e : e.priority = sev)

\* the attention entries ranked by descending priority, discovery order
\* breaking ties
Ranked(tra) ==
  WithPriority(tra, "critical") \o WithPriority(tra, "high")
    \o WithPriority(tra, "medium") \o WithPriority(tra, "low")

\* the workflow steps that carry parameters
TableStepsOf(wf) == SelectSeq(wf, LAMBDA st : st.parameters # <<>>)

\* the tables that get workflow steps, in the order their blocks are emitted
WorkflowTables(wf) ==
  LET first == SelectSeq(wf, LAMBDA st : st.tool_to_use = "get_query_statistics")
  IN [i \in 1..Len(first) |-> first[i].parameters]

\* C5: the tables that receive per-table workflow steps are the first 5
\* attention entries ranked by descending priority with discovery order as the
\* tie-break, their blocks are emitted in that order, and no table of lower
\* priority gets steps while a table of strictly higher priority is left out.
C5_TopFiveByPriorityThenDiscovery ==
  Returned =>
    LET ranked == Ranked(tables_requiring_attention)
        top == SubSeq(ranked, 1, Min(Len(ranked), 5))
        inWorkflow == Range(WorkflowTables(analysis_workflow))
    IN /\ WorkflowTables(analysis_workflow) = [i \in 1..Len(top) |-> EntryTable(top[i])]
       /\ {st.parameters : st \in Range(TableStepsOf(analysis_workflow))} = inWorkflow
       /\ \A i, j \in 1..Len(tables_requiring_attention) :
            LET a == tables_requiring_attention[i]
                b == tables_requiring_attention[j]
            IN (EntryTable(a) \in inWorkflow /\ EntryTable(b) \notin inWorkflow)
                 => SeverityRank(a.priority) >= SeverityRank(b.priority)

\* more than five entries of mixed priority: a high-priority table is among the
\* five that get steps and another high-priority table is left out
C5_Witness ==
  /\ Returned
  /\ Len(tables_requiring_attention) > 5
  /\ \E i, j, k \in 1..Len(tables_requiring_attention) :
       /\ tables_requiring_attention[i].priority = "critical"
       /\ tables_requiring_attention[j].priority = "high"
       /\ tables_requiring_attention[k].priority = "high"
       /\ EntryTable(tables_requiring_attention[j]) \in Range(WorkflowTables(analysis_workflow))
       /\ EntryTable(tables_requiring_attention[k]) \notin Range(WorkflowTables(analysis_workflow))

\* number of attention entries that get a block of steps
Blocks == Min(Len(tables_requiring_attention), 5)

\* C6: for n attention entries the workflow has exactly
\* 2 + 3*min(n,5) + (1 if n > 5 else 0) steps: get_database_health, then
\* analyze_query_performance, then the per-table steps, then the overflow
\* step if any.
C6_WorkflowLength ==
  Returned =>
    LET n == Len(tables_requiring_attention)
        wf == analysis_workflow
    IN /\ Len(wf) = 2 + 3 * Min(n, 5) + (IF n > 5 THEN 1 ELSE 0)
       /\ wf[1].tool_to_use = "get_database_health"
       /\ wf[2].tool_to_use = "analyze_query_performance"
       /\ \A i \in 3..(2 + 3 * Blocks) :
            /\ wf[i].parameters # <<>>
            /\ wf[i].tool_to_use \in {"get_query_statistics", "suggest_indexing_strategies",
                                      "suggest_schema_optimizations"}
       /\ \A i \in (3 + 3 * Blocks)..Len(wf) : wf[i].tool_to_use = "Multiple tools"
       /\ (n = 7 => Len(wf) = 18)
       /\ (n = 0 => Len(wf) = 2)

\* seven flagged tables: eighteen steps
C6_Witness ==
  /\ Returned
  /\ Len(tables_requiring_attention) = 7
  /\ Len(analysis_workflow) = 18

\* C7: step numbers are integers that start at 1, are pairwise distinct and
\* strictly increase in emission order: 1, 2, then 3..2+3k for k <= 5 tables,
\* then the overflow step's number, larger than every per-table step number.
C7_StepNumbersIncrease ==
  Returned =>
    LET wf == analysis_workflow
    IN /\ wf[1].step = 1
       /\ \A i \in 1..Len(wf) : wf[i].step \in Nat
       /\ \A i, j \in 1..Len(wf) : i < j => wf[i].step < wf[j].step
       /\ \A i \in 1..(2 + 3 * Blocks) : wf[i].step = i
       /\ \A i \in (3 + 3 * Blocks)..Len(wf) : wf[i].step > 2 + 3 * Blocks

\* a workflow with five blocks and the overflow step after them
C7_Witness ==
  /\ Returned
  /\ Len(analysis_workflow) = 18
  /\ analysis_workflow[17].step = 17
  /\ analysis_workflow[18].step > 17

\* C8: for every table in the workflow exactly three steps reference it; they
\* are adjacent, in the order get_query_statistics,
\* suggest_indexing_strategies, suggest_schema_optimizations; each carries
\* that table's schema and table as parameters; no step of another table lies
\* between them.
C8_TableStepsContiguous ==
  Returned =>
    LET wf == analysis_workflow
    IN \A i \in 1..Len(wf) :
         wf[i].parameters # <<>> =>
           LET refs == {j \in 1..Len(wf) : wf[j].parameters = wf[i].parameters}
               m == CHOOSE j \in refs : \A k \in refs : j <= k
           IN /\ refs = {m, m + 1, m + 2}
              /\ wf[m].tool_to_use = "get_query_statistics"
              /\ wf[m + 1].tool_to_use = "suggest_indexing_strategies"
              /\ wf[m + 2].tool_to_use = "suggest_schema_optimizations"
              /\ wf[i].parameters \in AttentionTables
              /\ <<wf[i].description[2], wf[i].description[3]>> = wf[i].parameters

\* two tables of the same name in different schemas both have their block
C8_Witness ==
  /\ Returned
  /\ \E i, j \in 1..Len(analysis_workflow) :
       /\ analysis_workflow[i].parameters # <<>>
       /\ analysis_workflow[j].parameters # <<>>
       /\ analysis_workflow[i].parameters[2] = analysis_workflow[j].parameters[2]
       /\ analysis_workflow[i].parameters[1] # analysis_workflow[j].parameters[1]

IsSummaryStep(st) == st.tool_to_use = "Multiple tools"

\* C9: the workflow ends with a summary step if and only if more than 5
\* tables require attention; that step has no parameters, is the last step
\* and states the remaining count, the number of attention entries minus 5.
C9_SummaryStepIffMoreThanFive ==
  Returned =>
    LET wf == analysis_workflow
        n == Len(tables_requiring_attention)
    IN /\ IsSummaryStep(wf[Len(wf)]) <=> n > 5
       /\ \A i \in 1..(Len(wf) - 1) : ~IsSummaryStep(wf[i])
       /\ n > 5 =>
            /\ wf[Len(wf)].parameters = <<>>
            /\ wf[Len(wf)].description[2] = n - 5

\* seven flagged tables: the summary step speaks of the remaining two
C9_Witness ==
  /\ Returned
  /\ Len(tables_requiring_attention) = 7
  /\ IsSummaryStep(analysis_workflow[Len(analysis_workflow)])
  /\ analysis_workflow[Len(analysis_workflow)].description[2] = 2

\* the evaluators in the order the aggregator is said to merge them
EvaluatorOrder ==
  <<"unused_index", "high_seq_scan", "fk_missing_index", "high_bloat", "never_analyzed",
    "invalid_constraint", "sequence_near_max">>

EvaluatorRank(ev) == CHOOSE k \in 1..Len(EvaluatorOrder) : EvaluatorOrder[k] = ev

\* the evaluator that wrote an issue, read off the issue text
EvaluatorOf(issue) ==
  LET text == issue.issue[1]
  IN IF text = "unused indexes wasting" THEN "unused_index"
     ELSE IF text = "tables have excessive sequential scans" THEN "high_seq_scan"
     ELSE IF text = "foreign keys without indexes" THEN "fk_missing_index"
     ELSE IF text = "tables have >10% bloat" THEN "high_bloat"
     ELSE IF text = "tables have never been analyzed" THEN "never_analyzed"
     ELSE IF text = "invalid constraints found" THEN "invalid_constraint"
     ELSE "sequence_near_max"

\* whether the evaluator has something to report in the database of this run
HasFinding(ev) ==
  IF ev = "unused_index" THEN unusedIndexCount > 0
  ELSE IF ev = "high_seq_scan" THEN Len(highSeqScanRows) > 0
  ELSE IF ev = "fk_missing_index" THEN unindexedFKCount > 0
  ELSE IF ev = "high_bloat" THEN Len(bloatedRows) > 0
  ELSE IF ev = "never_analyzed" THEN Len(neverAnalyzedRows) > 0
  ELSE IF ev = "invalid_constraint" THEN invalid_constraints > 0
  ELSE sequences_at_risk > 0

IssuesInEvaluatorOrder ==
  \A i, j \in 1..Len(critical_issues) :
    i < j => EvaluatorRank(EvaluatorOf(critical_issues[i]))
               < EvaluatorRank(EvaluatorOf(critical_issues[j]))

Contributes(ev) ==
  \E i \in 1..Len(critical_issues) : EvaluatorOf(critical_issues[i]) = ev

\* the evaluators comprehensive_database_analysis runs
AnalysisEvaluators == {EvaluatorOrder[k] : k \in 1..5}

\* C10 as stated: the issues of a report are in the order unused indexes,
\* high-seq-scan tables, unindexed foreign keys, bloated tables,
\* never-analyzed tables, invalid constraints, sequence risk, and each of
\* these evaluators that has a finding contributes its issue.
C10_SevenEvaluatorsInOrder ==
  Returned =>
    /\ IssuesInEvaluatorOrder
    /\ \A ev \in Range(EvaluatorOrder) : HasFinding(ev) => Contributes(ev)

\* C10 amended: the issues of a report are in the order unused indexes,
\* high-seq-scan tables, unindexed foreign keys, bloated tables,
\* never-analyzed tables; each of these five contributes its issue exactly
\* when it has a finding; invalid constraints and sequence risk never
\* contribute an issue, whatever the database holds.
C10_FiveEvaluatorsInOrder ==
  Returned =>
    /\ IssuesInEvaluatorOrder
    /\ \A ev \in AnalysisEvaluators : HasFinding(ev) <=> Contributes(ev)
    /\ \A ev \in Range(EvaluatorOrder) \ AnalysisEvaluators : ~Contributes(ev)

\* all five evaluators fired in a database that also has an invalid
\* constraint and a sequence at risk: five issues, none for the latter two
C10_Witness ==
  /\ Returned
  /\ Len(critical_issues) = 5
  /\ invalid_constraints > 0
  /\ sequences_at_risk > 0

\* the set of objects an issue names
ObjectSet(issue) == Range(issue.affected_objects)

\* C11: within one report no two issues have both the same category and the
\* same set of affected objects, whichever evaluators fire (unused indexes and
\* unindexed foreign keys firing together included).
C11_NoTwoIssuesSameCategoryAndObjects ==
  Returned =>
    \A i, j \in 1..Len(critical_issues) :
      (/\ critical_issues[i].category = critical_issues[j].category
       /\ ObjectSet(critical_issues[i]) = ObjectSet(critical_issues[j]))
        => i = j

(***************************************************************************)
(* Part 2: the duplicate-index scan of suggest_indexing_strategies         *)
(* (tools/suggestIndexingStrategies.ts).                                   *)
(***************************************************************************)
\* no comprehensive_database_analysis call is under way
AnalysisIdle ==
  /\ pc = "idle"
  /\ critical_issues = <<>>
  /\ tables_requiring_attention = <<>>
  /\ quick_wins = <<>>
  /\ unusedIndexCount = 0
  /\ highSeqScanRows = <<>>
  /\ unindexedFKCount = 0
  /\ bloatedRows = <<>>
  /\ neverAnalyzedRows = <<>>
  /\ health_score = InitialScore
  /\ criticalCount = 0
  /\ warningCount = 0
  /\ analysis_workflow = <<>>
  /\ invalid_constraints = 0
  /\ sequences_at_risk = 0

\* number of indexes on the analysed table
MaxIndexes == 3

\* column lists extracted from indexdef
IndexColumnLists ==
  {<<"a">>, <<"a", "b">>, <<"a", "b", "c">>, <<"b">>, <<"b", "a">>, <<"a", "c">>}

\* values of idx_scan
ScanCounts == {5, 50}

\* The rows of the index query are ORDER BY i.indexname and index names are
\* unique within a schema: index_name k stands for the k-th name in that order.
IndexStatLists ==
  UNION {[1..n -> [columns : IndexColumnLists, scans : ScanCounts]] : n \in 0..MaxIndexes}

\* the loop over indexStatsResult.rows as far as the scan needs it
IndexUsageStats(rows) ==
  [k \in 1..Len(rows) |->
     [index_name |-> k, columns |-> rows[k].columns, scans |-> rows[k].scans]]

\* a prefix test that looks at the first column only
IsPrefixFirstColumnOnly(short, long) == short[1] = long[1]

\* short.every((col, index) => long[index] === col), for Len(short) < Len(long)
IsPrefix(short, long) == \A k \in 1..Len(short) : long[k] = short[k]

\* a pair test whose last branch names the longer index as the one to drop
PairEntryDropsLonger(idx1, idx2) ==
  IF idx1.columns = idx2.columns
    THEN << [index1_name |-> idx1.index_name, index2_name |-> idx2.index_name,
             reason |-> "Indexes have identical column sets",
             suggestion |-> <<"prefer keeping",
                              IF idx1.scans > idx2.scans THEN idx1.index_name
                                                         ELSE idx2.index_name>>] >>
  ELSE IF Len(idx1.columns) < Len(idx2.columns)
    THEN IF IsPrefix(idx1.columns, idx2.columns)
           THEN << [index1_name |-> idx1.index_name, index2_name |-> idx2.index_name,
                    reason |-> "is a prefix of",
                    suggestion |-> <<"Consider dropping", idx1.index_name>>] >>
           ELSE <<>>
  ELSE IF Len(idx2.columns) < Len(idx1.columns)
    THEN IF IsPrefix(idx2.columns, idx1.columns)
           THEN << [index1_name |-> idx2.index_name, index2_name |-> idx1.index_name,
                    reason |-> "is a prefix of",
                    suggestion |-> <<"Consider dropping", idx1.index_name>>] >>
           ELSE <<>>
  ELSE <<>>

\* the body of the inner loop: what the pair (idx1, idx2) pushes
PairEntry(idx1, idx2) ==
  IF idx1.columns = idx2.columns
    THEN << [index1_name |-> idx1.index_name, index2_name |-> idx2.index_name,
             reason |-> "Indexes have identical column sets",
             suggestion |-> <<"prefer keeping",
                              IF idx1.scans > idx2.scans THEN idx1.index_name
                                                         ELSE idx2.index_name>>] >>
  ELSE IF Len(idx1.columns) < Len(idx2.columns)
    THEN IF IsPrefix(idx1.columns, idx2.columns)
           THEN << [index1_name |-> idx1.index_name, index2_name |-> idx2.index_name,
                    reason |-> "is a prefix of",
                    suggestion |-> <<"Consider dropping", idx1.index_name>>] >>
           ELSE <<>>
  ELSE IF Len(idx2.columns) < Len(idx1.columns)
    THEN IF IsPrefix(idx2.columns, idx1.columns)
           THEN << [index1_name |-> idx2.index_name, index2_name |-> idx1.index_name,
                    reason |-> "is a prefix of",
                    suggestion |-> <<"Consider dropping", idx2.index_name>>] >>
           ELSE <<>>
  ELSE <<>>

\* for (let j = i + 1; ...) and for (let i = 0; ...): positions are 1-based here
RECURSIVE InnerLoop(_, _, _)
InnerLoop(stats, i, j) ==
  IF j > Len(stats) THEN <<>>
  ELSE PairEntry(stats[i], stats[j]) \o InnerLoop(stats, i, j + 1)

RECURSIVE OuterLoop(_, _)
OuterLoop(stats, i) ==
  IF i > Len(stats) THEN <<>>
  ELSE InnerLoop(stats, i, i + 1) \o OuterLoop(stats, i + 1)

DuplicateIndexes(stats) == OuterLoop(stats, 1)

InitIndexes ==
  /\ AnalysisIdle
  /\ QueryIdle
  /\ ServerIdle
  /\ ToolIdle
  /\ RulesIdle
  /\ FirstCall
  /\ indexPc = "stats"
  /\ index_usage_stats = <<>>
  /\ duplicate_indexes = <<>>

\* the index query returns; index_usage_stats is filled and, after the
\* foreign-key query, the pairs are scanned
ScanIndexes ==
  /\ indexPc = "stats"
  /\ \E rows \in IndexStatLists :
       /\ index_usage_stats' = IndexUsageStats(rows)
       /\ duplicate_indexes' = DuplicateIndexes(IndexUsageStats(rows))
  /\ indexPc' = "scanned"
  /\ UNCHANGED otherThanIndexVars

\* executeQuery rethrows a failed index query
IndexQueryFails ==
  /\ indexPc = "stats"
  /\ indexPc' = "failed"
  /\ UNCHANGED <<index_usage_stats, duplicate_indexes>>
  /\ UNCHANGED otherThanIndexVars

NextIndexes ==
  \/ ScanIndexes
  \/ IndexQueryFails

SpecIndexes == InitIndexes /\ [][NextIndexes]_vars

Scanned == indexPc = "scanned"

\* the reported entries for the unordered pair of index names {a, b}
EntriesFor(entries, a, b) ==
  {k \in 1..Len(entries) :
     {entries[k].index1_name, entries[k].index2_name} = {a, b}}

StrictPrefix(short, long) ==
  /\ Len(short) < Len(long)
  /\ SubSeq(long, 1, Len(short)) = short

\* C12: for every pair of indexes with element-wise identical column lists the
\* reported suggestion keeps the index with strictly more scans, and with
\* equal scan counts it keeps the index whose name compares first.
C12_KeepsMoreScansThenFirstName ==
  Scanned =>
    \A i, j \in 1..Len(index_usage_stats) :
      LET a == index_usage_stats[i]
          b == index_usage_stats[j]
      IN (i < j /\ a.columns = b.columns) =>
           \E k \in EntriesFor(duplicate_indexes, a.index_name, b.index_name) :
             duplicate_indexes[k].suggestion =
               <<"prefer keeping",
                 IF a.scans > b.scans THEN a.index_name
                 ELSE IF b.scans > a.scans THEN b.index_name
                 ELSE Min(a.index_name, b.index_name)>>

\* the first half alone: with different scan counts the index with more scans
\* is the one kept
C12_KeepsMoreScans ==
  Scanned =>
    \A i, j \in 1..Len(index_usage_stats) :
      LET a == index_usage_stats[i]
          b == index_usage_stats[j]
      IN (i < j /\ a.columns = b.columns /\ a.scans # b.scans) =>
           \E k \in EntriesFor(duplicate_indexes, a.index_name, b.index_name) :
             duplicate_indexes[k].suggestion =
               <<"prefer keeping",
                 IF a.scans > b.scans THEN a.index_name ELSE b.index_name>>

\* C13: for every pair of indexes where the columns of A are a strict prefix
\* of the columns of B there is exactly one entry for the pair, it names A as
\* the index to drop and B is not named, whichever comes first in the input
\* and whatever the scan counts.
C13_PrefixIndexIsTheOneDropped ==
  Scanned =>
    \A i, j \in 1..Len(index_usage_stats) :
      LET a == index_usage_stats[i]
          b == index_usage_stats[j]
          found == EntriesFor(duplicate_indexes, a.index_name, b.index_name)
      IN StrictPrefix(a.columns, b.columns) =>
           /\ Cardinality(found) = 1
           /\ \A k \in found :
                /\ duplicate_indexes[k].suggestion = <<"Consider dropping", a.index_name>>
                /\ duplicate_indexes[k].index1_name = a.index_name
                /\ duplicate_indexes[k].index2_name = b.index_name

\* the prefix index comes after the longer one in the input and has more scans
C13_Witness ==
  /\ Scanned
  /\ \E i, j \in 1..Len(index_usage_stats) :
       /\ j < i
       /\ index_usage_stats[i].columns = <<"a", "b">>
       /\ index_usage_stats[j].columns = <<"a", "b", "c">>
       /\ index_usage_stats[i].scans > index_usage_stats[j].scans
       /\ Len(duplicate_indexes) = 1

\* the unordered pairs of index names an analysis reports
ReportedPairs(entries) ==
  {{entries[k].index1_name, entries[k].index2_name} : k \in 1..Len(entries)}

\* the unordered pairs of distinct indexes that are related
RelatedPairs(stats) ==
  {{stats[i].index_name, stats[j].index_name} : <<i, j>> \in
     {pr \in (1..Len(stats)) \X (1..Len(stats)) :
        /\ pr[1] # pr[2]
        /\ \/ stats[pr[1]].columns = stats[pr[2]].columns
           \/ StrictPrefix(stats[pr[1]].columns, stats[pr[2]].columns)}}

\* C14: duplicate_indexes has exactly one entry for each unordered pair of
\* distinct indexes whose column lists are identical or where one is a strict
\* prefix of the other, and none for any other pair; the reported pairs are
\* the same for every order of the indexes in the input; a chain A, B, C of
\* prefixes gives the three pairs.
C14_ExactlyTheRelatedPairs ==
  Scanned =>
    /\ ReportedPairs(duplicate_indexes) = RelatedPairs(index_usage_stats)
    /\ Len(duplicate_indexes) = Cardinality(RelatedPairs(index_usage_stats))
    /\ \A p \in Permutations(1..Len(index_usage_stats)) :
         ReportedPairs(DuplicateIndexes([k \in 1..Len(index_usage_stats) |->
                                           index_usage_stats[p[k]]]))
           = ReportedPairs(duplicate_indexes)
    /\ \A i, j, k \in 1..Len(index_usage_stats) :
         (/\ StrictPrefix(index_usage_stats[i].columns, index_usage_stats[j].columns)
          /\ StrictPrefix(index_usage_stats[j].columns, index_usage_stats[k].columns))
           => {{i, j}, {i, k}, {j, k}} \subseteq ReportedPairs(duplicate_indexes)

\* a chain (a), (a,b), (a,b,c) given out of order: three entries
C14_Witness ==
  /\ Scanned
  /\ Len(index_usage_stats) = 3
  /\ index_usage_stats[1].columns = <<"a", "b", "c">>
  /\ index_usage_stats[2].columns = <<"a">>
  /\ index_usage_stats[3].columns = <<"a", "b">>
  /\ Len(duplicate_indexes) = 3

(***************************************************************************)
(* Part 3: execute_query (executeQueryTool and validateReadOnlyQuery).     *)
(***************************************************************************)
UpperCase ==
  <<"A", "B", "C", "D", "E", "F", "G", "H", "I", "J", "K", "L", "M", "N", "O", "P", "Q", "R", "S", "T", "U", "V", "W", "X", "Y", "Z">>

LowerCase ==
  <<"a", "b", "c", "d", "e", "f", "g", "h", "i", "j", "k", "l", "m", "n", "o", "p", "q", "r", "s", "t", "u", "v", "w", "x", "y", "z">>

Digits == <<"0", "1", "2", "3", "4", "5", "6", "7", "8", "9">>

\* characters matched by \s and removed by trim()
Whitespace == {" ", "\t", "\n", "\r"}

ToLowerChar(c) ==
  IF \E k \in 1..Len(UpperCase) : UpperCase[k] = c
    THEN LowerCase[CHOOSE k \in 1..Len(UpperCase) : UpperCase[k] = c]
    ELSE c

\* String.prototype.toLowerCase
ToLowerCase(str) == [k \in 1..Len(str) |-> ToLowerChar(str[k])]

RECURSIVE TrimStart(_)
TrimStart(str) ==
  IF str # <<>> /\ Head(str) \in Whitespace THEN TrimStart(Tail(str)) ELSE str

RECURSIVE TrimEnd(_)
TrimEnd(str) ==
  IF str # <<>> /\ str[Len(str)] \in Whitespace
    THEN TrimEnd(SubSeq(str, 1, Len(str) - 1))
    ELSE str

\* String.prototype.trim
Trim(str) == TrimEnd(TrimStart(str))

\* String.prototype.includes
Includes(str, part) ==
  \E k \in 1..(Len(str) - Len(part) + 1) : SubSeq(str, k, k + Len(part) - 1) = part

\* String.prototype.startsWith
StartsWith(str, part) ==
  /\ Len(str) >= Len(part)
  /\ SubSeq(str, 1, Len(part)) = part

\* /^keyword\s/.test(str)
StartsWithCommand(str, keyword) ==
  /\ StartsWith(str, keyword)
  /\ Len(str) > Len(keyword)
  /\ str[Len(keyword) + 1] \in Whitespace

\* const writeKeywords
writeKeywords ==
  << <<"i", "n", "s", "e", "r", "t", " ">>,
     <<"u", "p", "d", "a", "t", "e", " ">>,
     <<"d", "e", "l", "e", "t", "e", " ">>,
     <<"d", "r", "o", "p", " ">>,
     <<"c", "r", "e", "a", "t", "e", " ">>,
     <<"a", "l", "t", "e", "r", " ">>,
     <<"t", "r", "u", "n", "c", "a", "t", "e", " ">>,
     <<"g", "r", "a", "n", "t", " ">>,
     <<"r", "e", "v", "o", "k", "e", " ">>,
     <<"c", "o", "m", "m", "i", "t">>,
     <<"r", "o", "l", "l", "b", "a", "c", "k">>,
     <<"b", "e", "g", "i", "n">>,
     <<"s", "t", "a", "r", "t", " ", "t", "r", "a", "n", "s", "a", "c", "t", "i", "o", "n">>,
     <<"s", "e", "t", " ">>,
     <<"c", "o", "p", "y", " ">> >>

\* the commands of startsWithAllowed
allowedCommands ==
  { <<"s", "e", "l", "e", "c", "t">>,
    <<"w", "i", "t", "h">>,
    <<"e", "x", "p", "l", "a", "i", "n">>,
    <<"s", "h", "o", "w">>,
    <<"t", "a", "b", "l", "e">>,
    <<"v", "a", "l", "u", "e", "s">> }

validateReadOnlyQuery(text) ==
  LET normalizedQuery == ToLowerCase(Trim(text))
      found == {k \in 1..Len(writeKeywords) : Includes(normalizedQuery, writeKeywords[k])}
  IN IF found # {}
       THEN [valid |-> FALSE,
             reason |-> <<"Query contains prohibited keyword",
                          writeKeywords[CHOOSE k \in found : \A other \in found : k <= other]>>]
     ELSE IF ~ \E keyword \in allowedCommands : StartsWithCommand(normalizedQuery, keyword)
       THEN [valid |-> FALSE, reason |-> <<"Query must start with SELECT, WITH, EXPLAIN, SHOW, TABLE, or VALUES">>]
     ELSE [valid |-> TRUE, reason |-> <<>>]

\* const { query, maxRows = 100 } = input
DefaultMaxRows == 100

\* `${maxRows}` for a natural number
RECURSIVE NumberText(_)
NumberText(n) ==
  IF n < 10 THEN <<Digits[n + 1]>>
  ELSE NumberText(n \div 10) \o <<Digits[(n % 10) + 1]>>

\* A maxRows value as the handler sees it.  The arguments are passed on as
\* `args as any`, so a caller can send a number or a string; text is what
\* `${maxRows}` gives.
NumberArgument(n) == [type |-> "number", number |-> n, text |-> NumberText(n)]

StringArgument(str) == [type |-> "string", number |-> 0, text |-> str]

\* the value is truthy
Truthy(value) ==
  IF value.type = "number" THEN value.number # 0 ELSE value.text # <<>>

EffectiveMaxRows(args) ==
  IF "maxRows" \in DOMAIN args THEN args.maxRows ELSE NumberArgument(DefaultMaxRows)

\* maxRows && !finalQuery.toLowerCase().includes('limit ')
AddsLimit(text, maxRows) ==
  /\ Truthy(maxRows)
  /\ ~ Includes(ToLowerCase(Trim(text)), <<"l", "i", "m", "i", "t", " ">>)

\* let finalQuery after the if
FinalQuery(text, maxRows) ==
  IF AddsLimit(text, maxRows)
    THEN Trim(text) \o <<" ", "L", "I", "M", "I", "T", " ">> \o maxRows.text
    ELSE Trim(text)

\* The database side of executeQuery(finalQuery): a statement that ends in
\* a LIMIT clause with a number gives at most that many of the rows it
\* selects, any other statement gives all of them.
LimitPositions(text) ==
  {k \in 1..(Len(text) - 5) :
     SubSeq(ToLowerCase(text), k, k + 5) = <<"l", "i", "m", "i", "t", " ">>}

TrailingLimit(text) ==
  IF LimitPositions(text) = {} THEN <<>>
  ELSE LET last == CHOOSE k \in LimitPositions(text) :
                     \A other \in LimitPositions(text) : other <= k
       IN Trim(SubSeq(text, last + 6, Len(text)))

IsNumberText(str) ==
  /\ str # <<>>
  /\ \A k \in 1..Len(str) : \E d \in 1..Len(Digits) : Digits[d] = str[k]

RECURSIVE TextNumber(_)
TextNumber(str) ==
  IF str = <<>> THEN 0
  ELSE TextNumber(SubSeq(str, 1, Len(str) - 1)) * 10
       + (CHOOSE d \in 1..Len(Digits) : Digits[d] = str[Len(str)]) - 1

RowsReturned(text, available) ==
  IF IsNumberText(TrailingLimit(text))
    THEN Min(available, TextNumber(TrailingLimit(text)))
    ELSE available

\* rows the statement selects when nothing limits it
AvailableRows == {3, 200}

\* number of pieces a statement is made of
MaxPieces == 3

\* the pieces statements are made of
Pieces ==
  { <<"s", "e", "l", "e", "c", "t">>,
    <<"S", "E", "L", "E", "C", "T">>,
    <<"v", "a", "l", "u", "e", "s">>,
    <<" ">>,
    <<"\t">>,
    <<" ", "1">>,
    <<";", "D", "R", "O", "P", "\t", "T", "A", "B", "L", "E", " ", "t">>,
    <<" ", "o", "f", "f", "s", "e", "t">>,
    <<"c", "o", "m", "m", "i", "t">>,
    <<"d", "r", "o", "p", " ">>,
    <<" ", "l", "i", "m", "i", "t", " ", "7">> }

RECURSIVE StatementsOf(_)
StatementsOf(n) ==
  IF n = 0 THEN {<<>>}
  ELSE {piece \o rest : piece \in Pieces, rest \in StatementsOf(n - 1)}

Statements == UNION {StatementsOf(n) : n \in 1..MaxPieces}

\* values of the maxRows argument
MaxRowsArguments ==
  { NumberArgument(0),
    NumberArgument(5),
    StringArgument(<<"1", ";", "d", "r", "o", "p", " ", "t", "a", "b", "l", "e", " ", "t">>) }

ExecuteQueryInputs ==
  [query : Statements] \cup [query : Statements, maxRows : MaxRowsArguments]

InitQuery ==
  /\ AnalysisIdle
  /\ IndexesIdle
  /\ ServerIdle
  /\ ToolIdle
  /\ RulesIdle
  /\ FirstCall
  /\ queryPc = "called"
  /\ input \in ExecuteQueryInputs
  /\ finalQuery = <<>>
  /\ warning = <<>>
  /\ rowCount = 0
  /\ query_error = <<>>

\* executeQueryTool up to the await of executeQuery(finalQuery)
ExecuteQueryTool ==
  /\ queryPc = "called"
  /\ LET validation == validateReadOnlyQuery(input.query)
         maxRows == EffectiveMaxRows(input)
     IN IF ~ validation.valid
          THEN /\ queryPc' = "rejected"
               /\ query_error' = validation.reason
               /\ UNCHANGED <<finalQuery, warning>>
          ELSE /\ queryPc' = "sent"
               /\ finalQuery' = FinalQuery(input.query, maxRows)
               /\ warning' = IF AddsLimit(input.query, maxRows)
                               THEN <<"Added LIMIT", maxRows.text>> ELSE <<>>
               /\ UNCHANGED query_error
  /\ UNCHANGED <<input, rowCount>>
  /\ UNCHANGED otherThanQueryVars

\* the query returns and the result is handed back
QueryReturns ==
  /\ queryPc = "sent"
  /\ queryPc' = "returned"
  /\ \E available \in AvailableRows : rowCount' = RowsReturned(finalQuery, available)
  /\ UNCHANGED <<input, finalQuery, warning, query_error>>
  /\ UNCHANGED otherThanQueryVars

\* the catch block: the database refused or failed the statement
DatabaseError ==
  /\ queryPc = "sent"
  /\ queryPc' = "failed"
  /\ query_error' \in {<<"Query rejected: Database is in read-only mode">>,
                       <<"Query execution failed">>}
  /\ UNCHANGED <<input, finalQuery, warning, rowCount>>
  /\ UNCHANGED otherThanQueryVars

NextQuery ==
  \/ ExecuteQueryTool
  \/ QueryReturns
  \/ DatabaseError

SpecQuery == InitQuery /\ [][NextQuery]_vars

\* the gate has decided
GateDecided == queryPc \in {"rejected", "sent", "returned", "failed"}

GateAccepted == queryPc \in {"sent", "returned", "failed"}

\* the statement without surrounding whitespace, letter case removed
Normalized(text) == ToLowerCase(Trim(text))

BeginsWithReadKeyword(text) ==
  \E keyword \in allowedCommands : StartsWith(Normalized(text), keyword)

\* the names of the write keywords: INSERT, ..., START TRANSACTION, SET, COPY
WriteKeywordNames == {Trim(writeKeywords[k]) : k \in 1..Len(writeKeywords)}

ContainsWriteKeyword(text) ==
  \E keyword \in WriteKeywordNames : Includes(Normalized(text), keyword)

\* C15: execute_query accepts a statement if and only if it begins with one
\* of SELECT, WITH, EXPLAIN, SHOW, TABLE, VALUES and contains none of the
\* write keywords, whatever the letter case and the surrounding whitespace;
\* every other statement is rejected with an error.
C15_AcceptsIffReadKeywordAndNoWriteKeyword ==
  GateDecided =>
    /\ GateAccepted <=>
         (BeginsWithReadKeyword(input.query) /\ ~ ContainsWriteKeyword(input.query))
    /\ queryPc = "rejected" => query_error # <<>>

\* the half that holds: an accepted statement begins with a read keyword
C15_AcceptedBeginsWithReadKeyword ==
  GateAccepted => BeginsWithReadKeyword(input.query)

\* the half that fails: an accepted statement contains no write keyword
C15_AcceptedContainsNoWriteKeyword ==
  GateAccepted => ~ ContainsWriteKeyword(input.query)

\* the call returned a result
QuerySucceeded == queryPc = "returned"

\* maxRows was left out or is a number
NumericMaxRows == EffectiveMaxRows(input).type = "number"

\* the tool appended a LIMIT to the statement
LimitAppended == finalQuery # Trim(input.query)

\* C21: a successful execute_query call returns at most maxRows rows (100
\* when maxRows is not given), for every accepted statement, those with
\* their own LIMIT clause included; and the warning is set exactly when the
\* tool appended a LIMIT.
C21_AtMostMaxRowsAndWarningIffAppended ==
  QuerySucceeded =>
    /\ NumericMaxRows => rowCount <= EffectiveMaxRows(input).number
    /\ warning # <<>> <=> LimitAppended

\* the part that holds: the warning is set exactly when a LIMIT was
\* appended, and then a number given as maxRows bounds the rows
C21_WarningIffAppended ==
  GateAccepted =>
    /\ warning # <<>> <=> LimitAppended
    /\ (QuerySucceeded /\ NumericMaxRows /\ LimitAppended)
         => rowCount <= EffectiveMaxRows(input).number

\* C28: every text execute_query sends to the database was accepted by the
\* gate first, and the text sent (the trimmed statement plus the optional
\* " LIMIT <maxRows>") still begins with an allowed keyword and contains no
\* denylisted write keyword, for every query and maxRows a caller can pass.
C28_SentTextPassesTheGate ==
  GateAccepted =>
    /\ validateReadOnlyQuery(input.query).valid
    /\ validateReadOnlyQuery(finalQuery).valid

\* the part that holds: nothing is sent unless the statement passed the
\* gate, and the text sent is the trimmed statement, with " LIMIT " and the
\* maxRows value after it when one was appended
C28_SentOnlyAfterTheGate ==
  GateAccepted =>
    /\ validateReadOnlyQuery(input.query).valid
    /\ StartsWith(finalQuery, Trim(input.query))
    /\ \E keyword \in allowedCommands : StartsWithCommand(ToLowerCase(finalQuery), keyword)

(***************************************************************************)
(* Part 4: the server process (index.ts main; db.ts getReadOnlyPool,       *)
(* testConnection, closePool).                                             *)
(***************************************************************************)
\* requests the client sends
MaxRequests == 3

\* requests handled at the same time
MaxInFlight == 2

\* shutdown signals delivered
MaxSignals == 2

\* values of current_setting('default_transaction_read_only')
ReadOnlySettings == {"on", "off"}

InitServer ==
  /\ AnalysisIdle
  /\ IndexesIdle
  /\ QueryIdle
  /\ ToolIdle
  /\ RulesIdle
  /\ FirstCall
  /\ serverPc = "main"
  /\ database_url \in BOOLEAN
  /\ database_reachable \in BOOLEAN
  /\ readonly_mode \in ReadOnlySettings
  /\ pool = "null"
  /\ warned = FALSE
  /\ exit_code = -1
  /\ handlers_registered = FALSE
  /\ transport_connected = FALSE
  /\ in_flight = 0
  /\ handled = 0
  /\ signals = 0
  /\ end_calls = 0

\* main up to the await of testConnection(): without DATABASE_URL the process
\* exits with 1, otherwise getReadOnlyPool creates the pool and the test
\* query is sent
StartMain ==
  /\ serverPc = "main"
  /\ IF ~ database_url
       THEN /\ serverPc' = "exited"
            /\ exit_code' = 1
            /\ UNCHANGED pool
       ELSE /\ serverPc' = "testing"
            /\ pool' = "open"
            /\ UNCHANGED exit_code
  /\ UNCHANGED <<database_url, database_reachable, readonly_mode, warned,
                 handlers_registered, transport_connected, in_flight, handled,
                 signals, end_calls>>
  /\ UNCHANGED otherThanServerVars

\* the test query is answered: testConnection warns if the setting is not
\* 'on' and returns; main creates the server, registers the request handlers
\* and the signal handlers and calls server.connect(transport)
TestConnectionSucceeds ==
  /\ serverPc = "testing"
  /\ database_reachable
  /\ warned' = (readonly_mode # "on")
  /\ handlers_registered' = TRUE
  /\ serverPc' = "connecting"
  /\ UNCHANGED <<database_url, database_reachable, readonly_mode, pool, exit_code,
                 transport_connected, in_flight, handled, signals, end_calls>>
  /\ UNCHANGED otherThanServerVars

\* the test query fails and main only logs the error: it goes on to register
\* the handlers and to connect the transport
TestConnectionFailsGoesOn ==
  /\ serverPc = "testing"
  /\ ~ database_reachable
  /\ handlers_registered' = TRUE
  /\ serverPc' = "connecting"
  /\ UNCHANGED <<database_url, database_reachable, readonly_mode, pool, warned,
                 exit_code, transport_connected, in_flight, handled, signals,
                 end_calls>>
  /\ UNCHANGED otherThanServerVars

\* the test query fails: testConnection throws and main exits with 1
TestConnectionFails ==
  /\ serverPc = "testing"
  /\ ~ database_reachable
  /\ serverPc' = "exited"
  /\ exit_code' = 1
  /\ UNCHANGED <<database_url, database_reachable, readonly_mode, pool, warned,
                 handlers_registered, transport_connected, in_flight, handled,
                 signals, end_calls>>
  /\ UNCHANGED otherThanServerVars

\* server.connect(transport) completes: the server accepts requests
TransportConnected ==
  /\ serverPc = "connecting"
  /\ serverPc' = "serving"
  /\ transport_connected' = TRUE
  /\ UNCHANGED <<database_url, database_reachable, readonly_mode, pool, warned,
                 exit_code, handlers_registered, in_flight, handled, signals,
                 end_calls>>
  /\ UNCHANGED otherThanServerVars

\* a tool or resource request arrives and its handler starts
ReceiveRequest ==
  /\ serverPc = "serving"
  /\ in_flight < MaxInFlight
  /\ in_flight + handled < MaxRequests
  /\ in_flight' = in_flight + 1
  /\ UNCHANGED <<serverPc, database_url, database_reachable, readonly_mode, pool,
                 warned, exit_code, handlers_registered, transport_connected,
                 handled, signals, end_calls>>
  /\ UNCHANGED otherThanServerVars

\* a handler answers its request
RequestCompletes ==
  /\ serverPc = "serving"
  /\ in_flight > 0
  /\ in_flight' = in_flight - 1
  /\ handled' = handled + 1
  /\ UNCHANGED <<serverPc, database_url, database_reachable, readonly_mode, pool,
                 warned, exit_code, handlers_registered, transport_connected,
                 signals, end_calls>>
  /\ UNCHANGED otherThanServerVars

\* SIGINT or SIGTERM: cleanup calls closePool, which calls pool.end() if pool
\* is set and awaits it; with pool unset cleanup exits at once
Signal ==
  /\ serverPc \in {"connecting", "serving"}
  /\ signals < MaxSignals
  /\ signals' = signals + 1
  /\ IF pool # "null"
       THEN /\ pool' = "ending"
            /\ end_calls' = end_calls + 1
            /\ UNCHANGED <<serverPc, exit_code>>
       ELSE /\ serverPc' = "exited"
            /\ exit_code' = 0
            /\ UNCHANGED <<pool, end_calls>>
  /\ UNCHANGED <<database_url, database_reachable, readonly_mode, warned,
                 handlers_registered, transport_connected, in_flight, handled>>
  /\ UNCHANGED otherThanServerVars

\* pool.end() resolves: closePool sets pool = null and cleanup exits with 0
PoolEnded ==
  /\ serverPc \in {"connecting", "serving"}
  /\ pool = "ending"
  /\ pool' = "null"
  /\ serverPc' = "exited"
  /\ exit_code' = 0
  /\ UNCHANGED <<database_url, database_reachable, readonly_mode, warned,
                 handlers_registered, transport_connected, in_flight, handled,
                 signals, end_calls>>
  /\ UNCHANGED otherThanServerVars

NextServer ==
  \/ StartMain
  \/ TestConnectionSucceeds
  \/ TestConnectionFails
  \/ TransportConnected
  \/ ReceiveRequest
  \/ RequestCompletes
  \/ Signal
  \/ PoolEnded

SpecServer == InitServer /\ [][NextServer]_vars

\* main runs to its first await without waiting for anything, and the test
\* query of an unreachable database fails at the latest when
\* connectionTimeoutMillis is over
SpecServerFair ==
  /\ SpecServer
  /\ WF_vars(StartMain)
  /\ WF_vars(TestConnectionFails)

\* the server is accepting tool and resource requests
Serving == serverPc = "serving"

\* C16: whenever the server is accepting tool or resource requests the
\* connection it uses is in read-only mode: the startup test observed
\* default_transaction_read_only = 'on', and the server does not serve over a
\* connection for which the setting is not 'on'.
C16_ServesOnlyReadOnlyConnections ==
  Serving => readonly_mode = "on"

\* what the code does instead: serving over a connection that is not
\* read-only has been warned about
C16_ServingWithoutReadOnlyWasWarned ==
  Serving => (warned <=> readonly_mode # "on")

(***************************************************************************)
(* Part 5: the tools that read the catalog: what each one validates, the   *)
(* queries it issues in order, and what it does when a query fails or      *)
(* finds no row (listTables.ts, getTableInfo.ts, suggestIndexingStrategies *)
(* .ts, suggestSchemaOptimizations and analyzeQueryPerformance,            *)
(* getQueryStatistics, getDatabaseHealth).  A query is <<name, k>>, k      *)
(* numbering the queries a loop issues.                                    *)
(***************************************************************************)
\* identifier.length < 256
MaxIdentifierLength == 256

\* the characters of /^[a-zA-Z0-9_.-]+$/
IdentifierChars ==
  Range(LowerCase) \cup Range(UpperCase) \cup Range(Digits) \cup {"_", ".", "-"}

validateIdentifier(identifier) ==
  /\ identifier # <<>>
  /\ \A k \in 1..Len(identifier) : identifier[k] \in IdentifierChars
  /\ Len(identifier) > 0
  /\ Len(identifier) < MaxIdentifierLength

\* a text of n times the character c
Repeat(c, n) == [k \in 1..n |-> c]

\* values of the schema argument
SchemaArguments ==
  { <<>>,
    <<"p", "u", "b", "l", "i", "c">>,
    <<"a", "p", "p", "-", "1", ".", "x">>,
    <<"b", "a", "d", " ", "n", "a", "m", "e">>,
    <<"x", ";">>,
    Repeat("a", MaxIdentifierLength - 1),
    Repeat("a", MaxIdentifierLength) }

\* values of the table argument
TableArguments ==
  { <<>>,
    <<"o", "r", "d", "e", "r", "s">>,
    <<"o", "r", " ", "d", "e", "r", "s">> }

\* values of the query argument of analyze_query_performance
QueryArguments ==
  { <<"S", "E", "L", "E", "C", "T", " ", "1">>,
    <<"d", "r", "o", "p", " ", "t">> }

\* rows of the query a loop runs over (columns, constraints)
MaxListed == 2

TableTools ==
  {"get_table_info", "get_query_statistics", "suggest_indexing_strategies",
   "suggest_schema_optimizations"}

Tools ==
  TableTools \cup {"list_tables", "analyze_query_performance", "get_database_health"}

\* the input objects a tool can be called with
ToolInputs(name) ==
  IF name \in TableTools THEN [schema : SchemaArguments, table : TableArguments]
  ELSE IF name = "list_tables" THEN {<<>>} \cup [schema : SchemaArguments]
  ELSE IF name = "analyze_query_performance" THEN {<<>>} \cup [query : QueryArguments]
  ELSE {<<>>}

\* the database a tool can be called against
ToolDatabases(name) ==
  IF name \in TableTools
    THEN [table_exists : {FALSE}, listed : {0}, has_pg_stat_statements : {FALSE},
          replicating : {FALSE}, invalid_constraints : {FALSE}]
         \cup [table_exists : {TRUE}, listed : 0..MaxListed,
               has_pg_stat_statements : {FALSE}, replicating : {FALSE},
               invalid_constraints : {FALSE}]
  ELSE IF name = "analyze_query_performance"
    THEN [table_exists : {FALSE}, listed : {0}, has_pg_stat_statements : BOOLEAN,
          replicating : {FALSE}, invalid_constraints : {FALSE}]
  ELSE IF name = "get_database_health"
    THEN [table_exists : {FALSE}, listed : {0}, has_pg_stat_statements : {FALSE},
          replicating : BOOLEAN, invalid_constraints : BOOLEAN]
  ELSE [table_exists : {FALSE}, listed : {0}, has_pg_stat_statements : {FALSE},
        replicating : {FALSE}, invalid_constraints : {FALSE}]

Query(name) == <<name, 0>>

Has(args, field) == field \in DOMAIN args

\* the handlers that start with
\* if (!validateIdentifier(schema) || !validateIdentifier(table)) throw:
\* getTableInfo, getQueryStatistics, suggestIndexingStrategies and
\* suggestSchemaOptimizations; listTables has no such line
ValidatesIdentifiers(name) == name \in TableTools

\* trimmedQuery.startsWith('select') || trimmedQuery.startsWith('with')
IsSelectQuery(text) ==
  \/ StartsWith(ToLowerCase(Trim(text)), <<"s", "e", "l", "e", "c", "t">>)
  \/ StartsWith(ToLowerCase(Trim(text)), <<"w", "i", "t", "h">>)

\* the queries each handler issues when none of them throws, in order
listTablesPlan == <<Query("tables")>>

getTableInfoPlan(db) ==
  <<Query("columns"), Query("stats"), Query("indexes"), Query("constraints")>>
  \o [k \in 1..db.listed |-> <<"constraint_definition", k>>]

getQueryStatisticsPlan ==
  <<Query("table_stats"), Query("io_stats"), Query("index_stats")>>

suggestIndexingStrategiesPlan ==
  <<Query("index_stats"), Query("unindexed_fk"), Query("scan_stats"), Query("context")>>

suggestSchemaOptimizationsPlan(db) ==
  <<Query("columns"), Query("indexed_columns"), Query("fk_columns")>>
  \o [k \in 1..db.listed |-> <<"column_stats", k>>]
  \o <<Query("foreign_keys"), Query("bloat"), Query("size")>>

analyzeQueryPerformancePlan(args, db) ==
  <<Query("extension_check")>>
  \o (IF Has(args, "query")
        THEN IF IsSelectQuery(args.query) THEN <<Query("explain")>> ELSE <<>>
      ELSE IF db.has_pg_stat_statements THEN <<Query("slow_queries")>>
      ELSE <<>>)

getDatabaseHealthPlan(db) ==
  <<Query("database_size"), Query("cache"), Query("table_stats"),
    Query("index_stats"), Query("max_connections"),
    Query("current_connections"), Query("seq_scan"), Query("replication")>>
  \o (IF db.replicating THEN <<Query("replication_lag")>> ELSE <<>>)
  \o <<Query("constraints")>>
  \o (IF db.invalid_constraints THEN <<Query("invalid_details")>> ELSE <<>>)
  \o <<Query("sequences")>>

\* switch (name) of the CallTool request handler
Plan(name, args, db) ==
  IF name = "list_tables" THEN listTablesPlan
  ELSE IF name = "get_table_info" THEN getTableInfoPlan(db)
  ELSE IF name = "get_query_statistics" THEN getQueryStatisticsPlan
  ELSE IF name = "suggest_indexing_strategies" THEN suggestIndexingStrategiesPlan
  ELSE IF name = "suggest_schema_optimizations" THEN suggestSchemaOptimizationsPlan(db)
  ELSE IF name = "analyze_query_performance" THEN analyzeQueryPerformancePlan(args, db)
  ELSE getDatabaseHealthPlan(db)

\* what each handler does when the awaited query returns no row: throw a
\* not-found error, go on with default values, or nothing special
getTableInfoOnEmpty(q) == IF q[1] = "stats" THEN "not_found" ELSE "none"

getQueryStatisticsOnEmpty(q) ==
  IF q[1] = "table_stats" THEN "not_found"
  ELSE IF q[1] = "io_stats" THEN "defaults"
  ELSE "none"

suggestIndexingStrategiesOnEmpty(q) ==
  IF q[1] \in {"scan_stats", "context"} THEN "defaults" ELSE "none"

suggestSchemaOptimizationsOnEmpty(q) ==
  IF q[1] = "columns" THEN "not_found"
  ELSE IF q[1] \in {"bloat", "size"} THEN "defaults"
  ELSE "none"

OnEmpty(name, q) ==
  IF name = "get_table_info" THEN getTableInfoOnEmpty(q)
  ELSE IF name = "get_query_statistics" THEN getQueryStatisticsOnEmpty(q)
  ELSE IF name = "suggest_indexing_strategies" THEN suggestIndexingStrategiesOnEmpty(q)
  ELSE IF name = "suggest_schema_optimizations" THEN suggestSchemaOptimizationsOnEmpty(q)
  ELSE "none"

\* what each handler does when executeQuery throws for the awaited query:
\* let the error go, go on with default values, or skip the block
suggestSchemaOptimizationsOnFail(q) ==
  IF q[1] = "column_stats" THEN "defaults" ELSE "throw"

getDatabaseHealthOnFail(q) ==
  IF q[1] \in {"replication", "replication_lag"} THEN "skip" ELSE "throw"

OnFail(name, q) ==
  IF name = "suggest_schema_optimizations" THEN suggestSchemaOptimizationsOnFail(q)
  ELSE IF name = "get_database_health" THEN getDatabaseHealthOnFail(q)
  ELSE "throw"

\* the findings the rows of a query can give, in the order they are pushed
getDatabaseHealthFindings(q) ==
  IF q[1] = "cache" THEN <<"low_cache_hit">>
  ELSE IF q[1] = "table_stats" THEN <<"never_vacuumed", "never_analyzed", "high_bloat">>
  ELSE IF q[1] = "index_stats" THEN <<"unused_indexes">>
  ELSE IF q[1] = "current_connections"
    THEN <<"connection_utilization", "idle_connections">>
  ELSE IF q[1] = "seq_scan" THEN <<"high_seq_scans">>
  ELSE IF q[1] = "replication_lag" THEN <<"replication_lag", "inactive_slots">>
  ELSE IF q[1] = "invalid_details" THEN <<"invalid_constraints">>
  ELSE IF q[1] = "sequences" THEN <<"sequences_at_risk">>
  ELSE <<>>

analyzeQueryPerformanceFindings(q) ==
  IF q[1] = "explain" THEN <<"seq_scan_plan", "many_rows">>
  ELSE IF q[1] = "slow_queries" THEN <<"low_cache_hit", "slow_mean_time">>
  ELSE <<>>

PossibleFindings(name, q) ==
  IF name = "get_database_health" THEN getDatabaseHealthFindings(q)
  ELSE IF name = "analyze_query_performance" THEN analyzeQueryPerformanceFindings(q)
  ELSE <<>>

\* the findings one result can give: any of the possible ones, except that
\* the invalid-constraint finding is pushed whenever its query is issued
FindingsOf(name, q) ==
  IF q[1] = "invalid_details" THEN {PossibleFindings(name, q)}
  ELSE {SelectSeq(PossibleFindings(name, q), LAMBDA f : f \in chosen) :
          chosen \in SUBSET Range(PossibleFindings(name, q))}

\* pushed when analyze_query_performance has neither a query nor the extension
InstallHint == "install_pg_stat_statements"

\* pushed when get_database_health found nothing
LooksGood == "looks_good"

\* recommendations pushed right after a query returned, besides the findings
ExtraRecommendations(name, q, args, db) ==
  IF /\ name = "analyze_query_performance"
     /\ q[1] = "extension_check"
     /\ ~ Has(args, "query")
     /\ ~ db.has_pg_stat_statements
    THEN <<InstallHint>>
    ELSE <<>>

\* the default message pushed whatever was found
FinalRecommendationsAlways(name, issues, recs) ==
  IF name = "get_database_health" THEN Append(recs, LooksGood) ELSE recs

\* recommendations at the return statement
FinalRecommendations(name, issues, recs) ==
  IF name = "get_database_health" /\ issues = <<>> THEN Append(recs, LooksGood) ELSE recs

\* the rest of the plan once the try block of q is left through its catch
AfterSkip(q, rest) ==
  IF q[1] = "replication" /\ rest # <<>> /\ Head(rest)[1] = "replication_lag"
    THEN Tail(rest)
    ELSE rest

InitTools ==
  /\ AnalysisIdle
  /\ IndexesIdle
  /\ QueryIdle
  /\ ServerIdle
  /\ RulesIdle
  /\ FirstCall
  /\ toolPc = "called"
  /\ tool \in Tools
  /\ tool_input \in ToolInputs(tool)
  /\ tool_database \in ToolDatabases(tool)
  /\ remaining = <<>>
  /\ queries_issued = <<>>
  /\ defaults_used = {}
  /\ performance_issues = <<>>
  /\ recommendations = <<>>
  /\ query_failures = <<>>
  /\ tool_error = <<>>

\* throw new Error(message)
Throw(message) ==
  /\ toolPc' = "failed"
  /\ tool_error' = message
  /\ UNCHANGED <<remaining, queries_issued, defaults_used, performance_issues,
                 recommendations>>

\* the handler goes on after a query: it issues the next one or returns
GoOn(rest, defaults, issues, recs) ==
  /\ defaults_used' = defaults
  /\ performance_issues' = issues
  /\ remaining' = rest
  /\ IF rest = <<>>
       THEN /\ toolPc' = "returned"
            /\ recommendations' = FinalRecommendations(tool, issues, recs)
            /\ UNCHANGED queries_issued
       ELSE /\ toolPc' = "running"
            /\ recommendations' = recs
            /\ queries_issued' = Append(queries_issued, Head(rest))
  /\ UNCHANGED tool_error

\* the handler from its entry to its first await
CallTool ==
  /\ toolPc = "called"
  /\ IF /\ ValidatesIdentifiers(tool)
        /\ (~ validateIdentifier(tool_input.schema) \/ ~ validateIdentifier(tool_input.table))
       THEN Throw(<<"Invalid schema or table name">>)
       ELSE GoOn(Plan(tool, tool_input, tool_database), {}, <<>>, <<>>)
  /\ UNCHANGED <<tool, tool_input, tool_database, query_failures>>
  /\ UNCHANGED otherThanToolVars

\* the awaited query returns and the handler runs to its next await, to its
\* return or to a throw
ToolQueryReturns ==
  /\ toolPc = "running"
  /\ LET q == Head(remaining)
         rest == Tail(remaining)
         empty == tool \in TableTools /\ ~ tool_database.table_exists
     IN IF empty /\ OnEmpty(tool, q) = "not_found"
          THEN Throw(<<"Table not found", tool_input.schema, tool_input.table>>)
        ELSE IF /\ tool = "analyze_query_performance"
                /\ q[1] = "extension_check"
                /\ Has(tool_input, "query")
                /\ ~ IsSelectQuery(tool_input.query)
          THEN Throw(<<"Failed to analyze query",
                       "Only SELECT queries can be analyzed for security reasons">>)
        ELSE \E found \in FindingsOf(tool, q) :
               GoOn(rest,
                    IF empty /\ OnEmpty(tool, q) = "defaults"
                      THEN defaults_used \cup {q} ELSE defaults_used,
                    IF tool = "get_database_health"
                      THEN performance_issues \o found ELSE performance_issues,
                    recommendations \o found
                      \o ExtraRecommendations(tool, q, tool_input, tool_database))
  /\ UNCHANGED <<tool, tool_input, tool_database, query_failures>>
  /\ UNCHANGED otherThanToolVars

\* executeQuery throws for the awaited query (rejected or timed out)
ToolQueryFails ==
  /\ toolPc = "running"
  /\ LET q == Head(remaining)
         rest == Tail(remaining)
     IN /\ query_failures' = Append(query_failures, q)
        /\ IF OnFail(tool, q) = "throw"
             THEN Throw(IF q[1] = "explain"
                          THEN <<"Failed to analyze query", "Query execution failed">>
                          ELSE <<"Query execution failed", q>>)
           ELSE IF OnFail(tool, q) = "defaults"
             THEN GoOn(rest, defaults_used \cup {q}, performance_issues, recommendations)
           ELSE GoOn(AfterSkip(q, rest), defaults_used, performance_issues,
                     recommendations)
  /\ UNCHANGED <<tool, tool_input, tool_database>>
  /\ UNCHANGED otherThanToolVars

NextTools ==
  \/ CallTool
  \/ ToolQueryReturns
  \/ ToolQueryFails

SpecTools == InitTools /\ [][NextTools]_vars

\* the call has got past its entry
ToolEntered == toolPc \in {"running", "returned", "failed"}

\* the call is over
ToolOver == toolPc \in {"returned", "failed"}

\* 1 to 255 characters, each a letter, a digit, underscore, hyphen or period
WellFormed(identifier) ==
  /\ Len(identifier) \in 1..255
  /\ \A k \in 1..Len(identifier) :
       \/ \E n \in 1..Len(LowerCase) : identifier[k] \in {LowerCase[n], UpperCase[n]}
       \/ \E n \in 1..Len(Digits) : identifier[k] = Digits[n]
       \/ identifier[k] \in {"_", "-", "."}

\* the schema and table arguments the call was given
IdentifierArguments ==
  {tool_input[field] : field \in DOMAIN tool_input \cap {"schema", "table"}}

\* some schema or table argument of the call is not well-formed
BadIdentifierGiven ==
  /\ tool \in TableTools \cup {"list_tables"}
  /\ \E identifier \in IdentifierArguments : ~ WellFormed(identifier)

\* C17: for every tool that takes a schema or table argument (the four
\* table tools and list_tables with a schema filter) an argument that is not
\* 1 to 255 characters of letters, digits, underscore, hyphen or period makes
\* the call fail with an error, and no query is issued during the call.
C17_BadIdentifierFailsBeforeAnyQuery ==
  (ToolEntered /\ BadIdentifierGiven) =>
    /\ toolPc = "failed"
    /\ tool_error # <<>>
    /\ queries_issued = <<>>

\* the part that holds: the four table tools reject before any query
C17_TableToolsRejectBeforeAnyQuery ==
  (ToolEntered /\ BadIdentifierGiven /\ tool \in TableTools) =>
    /\ toolPc = "failed"
    /\ tool_error = <<"Invalid schema or table name">>
    /\ queries_issued = <<>>

\* the queries whose source a deployment may lack
OptionalQueries == {Query("replication"), Query("replication_lag"), Query("slow_queries")}

\* a query every run of the tool needs has failed
MandatoryQueryFailed ==
  \E k \in 1..Len(query_failures) : query_failures[k] \notin OptionalQueries

\* C18: in every analysis tool, when a mandatory catalog query fails the call
\* fails with a single error and returns no report; each query is issued at
\* most once, and no tool replaces the result of a failed mandatory query
\* with default values and goes on to return a report.
C18_FailedMandatoryQueryFailsTheCall ==
  /\ MandatoryQueryFailed => (toolPc = "failed" /\ tool_error # <<>>)
  /\ \A i, j \in 1..Len(queries_issued) :
       queries_issued[i] = queries_issued[j] => i = j
  /\ \A k \in 1..Len(query_failures) :
       query_failures[k] \notin OptionalQueries => query_failures[k] \notin defaults_used

\* the part that holds: outside the per-column statistics of
\* suggest_schema_optimizations a failed mandatory query fails the call, and
\* no query is issued twice
C18_ExceptColumnStats ==
  /\ (\E k \in 1..Len(query_failures) :
        query_failures[k] \notin OptionalQueries /\ query_failures[k][1] # "column_stats")
       => (toolPc = "failed" /\ tool_error # <<>>)
  /\ \A i, j \in 1..Len(queries_issued) :
       queries_issued[i] = queries_issued[j] => i = j

\* the replication queries of get_database_health have failed
ReplicationUnavailable ==
  /\ tool = "get_database_health"
  /\ \E k \in 1..Len(query_failures) :
       query_failures[k][1] \in {"replication", "replication_lag"}

\* analyze_query_performance runs without pg_stat_statements
StatStatementsUnavailable ==
  /\ tool = "analyze_query_performance"
  /\ ~ tool_database.has_pg_stat_statements

\* recommendations that explain that a source is unavailable
ExplanatoryStrings == {InstallHint, "replication_unavailable"}

NumExplanations ==
  Cardinality({k \in 1..Len(recommendations) : recommendations[k] \in ExplanatoryStrings})

\* C19: when an optional statistics source is unavailable (the replication
\* queries fail in get_database_health, pg_stat_statements is not installed
\* in analyze_query_performance) the call still succeeds, reports no finding
\* of that evaluator, and its recommendations hold exactly one explanatory
\* string about the unavailable source.
C19_UnavailableSourceExplainedOnce ==
  (ToolOver /\ ~ MandatoryQueryFailed /\ tool_error # <<"Failed to analyze query",
      "Only SELECT queries can be analyzed for security reasons">>
     /\ (ReplicationUnavailable \/ StatStatementsUnavailable)) =>
    /\ toolPc = "returned"
    /\ \A k \in 1..Len(recommendations) :
         ReplicationUnavailable =>
           recommendations[k] \notin {"replication_lag", "inactive_slots"}
    /\ \A k \in 1..Len(recommendations) :
         StatStatementsUnavailable =>
           recommendations[k] \notin {"low_cache_hit", "slow_mean_time"}
    /\ NumExplanations = 1

\* the part that holds: the call succeeds without a finding of the evaluator;
\* analyze_query_performance called without a query gives the install hint
\* and nothing else
C19_UnavailableSourceIsSkipped ==
  (ToolOver /\ ~ MandatoryQueryFailed /\ tool_error # <<"Failed to analyze query",
      "Only SELECT queries can be analyzed for security reasons">>
     /\ (ReplicationUnavailable \/ StatStatementsUnavailable)) =>
    /\ toolPc = "returned"
    /\ ReplicationUnavailable =>
         \A k \in 1..Len(recommendations) :
           recommendations[k] \notin {"replication_lag", "inactive_slots"}
    /\ (StatStatementsUnavailable /\ ~ Has(tool_input, "query")) =>
         recommendations = <<InstallHint>>

\* a table tool was called with a well-formed schema.table that does not exist
MissingTableCall ==
  /\ tool \in TableTools
  /\ WellFormed(tool_input.schema)
  /\ WellFormed(tool_input.table)
  /\ ~ tool_database.table_exists

\* C20: every table tool called with a well-formed schema.table that does
\* not exist fails with an error that names the missing schema.table and
\* returns no report.
C20_MissingTableFailsNamingTheTable ==
  (ToolOver /\ MissingTableCall /\ query_failures = <<>>) =>
    /\ toolPc = "failed"
    /\ tool_error = <<"Table not found", tool_input.schema, tool_input.table>>

\* the part that holds: get_table_info, get_query_statistics and
\* suggest_schema_optimizations fail naming the table
C20_ExceptIndexingStrategies ==
  (ToolOver /\ MissingTableCall /\ query_failures = <<>>
     /\ tool # "suggest_indexing_strategies") =>
    /\ toolPc = "failed"
    /\ tool_error = <<"Table not found", tool_input.schema, tool_input.table>>

(***************************************************************************)
(* Part 6: the rules that turn catalog statistics into findings            *)
(* (SpecRules): the unused-index checks of comprehensiveDatabaseAnalysis,  *)
(* getDatabaseHealth and suggestIndexingStrategies, the high-seq-scan      *)
(* check of comprehensiveDatabaseAnalysis, the replication check of        *)
(* getDatabaseHealth and the bloat estimate of getQueryStatistics.  One    *)
(* behaviour is one check, run against the statistics the database holds.  *)
(***************************************************************************)

\* a column that holds no value (SQL NULL)
Null == -1

\* the largest number of indexes or of tables the statistics views hold
MaxStatRows == 2

\* idx_scan of an index: never scanned, or scanned
IndexScanCounts == {0, 5}

(***************************************************************************)
(* One index of the database, as pg_stat_user_indexes and pg_indexes show  *)
(* it: a primary key is backed by a unique index, so its indexdef reads    *)
(* "CREATE UNIQUE INDEX"; the name of an index is the owner's choice and   *)
(* ends with "_pkey" or does not.                                          *)
(***************************************************************************)
CatalogIndexes ==
  { ix \in [idx_scan : IndexScanCounts, is_primary : BOOLEAN, is_unique : BOOLEAN,
            indexname_pkey : BOOLEAN] :
      ix.is_primary => ix.is_unique }

\* the lists of at most n elements of S
ListsUpTo(S, n) == UNION { [1..k -> S] : k \in 0..n }

\* SELECT COUNT(*) ... FROM pg_stat_user_indexes WHERE idx_scan = 0
CountIdxScanZero(indexes) ==
  Cardinality({ i \in 1..Len(indexes) : indexes[i].idx_scan = 0 })

\* if (unusedCount > 0) critical_issues.push(...); nothing is pushed to
\* tables_requiring_attention
ComprehensiveUnusedFinding(indexes) ==
  LET unusedCount == CountIdxScanZero(indexes)
  IN  [unused_count |-> unusedCount,
       critical_issues |-> IF unusedCount > 0
                             THEN PushIssue(<<>>, UnusedIndexIssue(unusedCount))
                             ELSE <<>>,
       tables_requiring_attention |-> <<>>]

\* COUNT(*) FILTER (WHERE idx_scan = 0) as unused_indexes; the issue is pushed
\* when the count is positive
HealthUnusedFinding(indexes) ==
  LET unused == CountIdxScanZero(indexes)
  IN  [unused_count |-> unused,
       performance_issues |-> IF unused > 0 THEN <<<<"indexes are never used", unused>>>>
                                            ELSE <<>>]

\* const isPrimary = row.indexname.endsWith('_pkey')
IsPrimaryByName(ix) == ix.indexname_pkey

\* const isUnique = indexDef.includes('UNIQUE INDEX')
IsUniqueByDef(ix) == ix.is_unique

\* if (scans === 0 && !isPrimary && !isUnique) unused_indexes.push(...): the
\* positions of the indexes pushed, in the order of the rows
StrategiesUnusedFinding(indexes) ==
  [unused_indexes |->
     SelectSeq([i \in 1..Len(indexes) |-> i],
               LAMBDA i : /\ indexes[i].idx_scan = 0
                          /\ ~ IsPrimaryByName(indexes[i])
                          /\ ~ IsUniqueByDef(indexes[i]))]

UnusedIndexRules == {"comprehensive_unused", "health_unused", "strategies_unused"}

\* the comprehensive_database_analysis check of unused indexes
ComprehensiveUnusedIndexes ==
  /\ rulePc = "reading"
  /\ rule = "comprehensive_unused"
  /\ finding' = ComprehensiveUnusedFinding(stat_rows)
  /\ rulePc' = "reported"
  /\ UNCHANGED <<rule, stat_rows>>
  /\ UNCHANGED otherThanRuleVars

\* the get_database_health check of unused indexes
HealthUnusedIndexes ==
  /\ rulePc = "reading"
  /\ rule = "health_unused"
  /\ finding' = HealthUnusedFinding(stat_rows)
  /\ rulePc' = "reported"
  /\ UNCHANGED <<rule, stat_rows>>
  /\ UNCHANGED otherThanRuleVars

\* the suggest_indexing_strategies loop over the indexes of the table
StrategiesUnusedIndexes ==
  /\ rulePc = "reading"
  /\ rule = "strategies_unused"
  /\ finding' = StrategiesUnusedFinding(stat_rows)
  /\ rulePc' = "reported"
  /\ UNCHANGED <<rule, stat_rows>>
  /\ UNCHANGED otherThanRuleVars

(***************************************************************************)
(* The high-seq-scan check of comprehensiveDatabaseAnalysis.  A row of     *)
(* pg_stat_user_tables: idx_scan is NULL for a table without indexes.      *)
(***************************************************************************)
SeqScanCounts == {50, 100, 101, 500}
IdxScanCounts == {Null, 0, 10, 250}
LiveRowCounts == {1000, 5000}

TableStats == [seq_scan : SeqScanCounts, idx_scan : IdxScanCounts, n_live_tup : LiveRowCounts]

\* WHERE seq_scan >= 100 ...
HighSeqScanWhereFrom100(t) ==
  /\ t.seq_scan >= 100
  /\ t.idx_scan # Null
  /\ (t.idx_scan = 0 \/ t.seq_scan > t.idx_scan * 2)
  /\ t.n_live_tup > 1000

\* WHERE seq_scan > 100 AND (idx_scan = 0 OR seq_scan > idx_scan * 2)
\*   AND n_live_tup > 1000: a comparison with NULL is not true
HighSeqScanWhere(t) ==
  /\ t.seq_scan > 100
  /\ t.idx_scan # Null
  /\ (t.idx_scan = 0 \/ t.seq_scan > t.idx_scan * 2)
  /\ t.n_live_tup > 1000

\* the row the query returns for table k of the catalog
HighSeqScanRow(tables, k) ==
  [schemaname |-> Table(k).schemaname, relname |-> Table(k).relname,
   seq_scan |-> tables[k].seq_scan, idx_scan |-> tables[k].idx_scan]

\* the results the query can return: the rows selected, ORDER BY seq_scan DESC,
\* rows with equal seq_scan in either order
HighSeqScanResults(tables) ==
  LET selected == { k \in 1..Len(tables) : HighSeqScanWhere(tables[k]) }
      orders == { o \in [1..Cardinality(selected) -> selected] :
                    /\ \A i, j \in DOMAIN o : i # j => o[i] # o[j]
                    /\ \A i, j \in DOMAIN o :
                         i < j => tables[o[i]].seq_scan >= tables[o[j]].seq_scan }
  IN  { [i \in DOMAIN o |-> HighSeqScanRow(tables, o[i])] : o \in orders }

\* if (highSeqScanResult.rows.length > 0) { critical_issues.push(...);
\* for (const row of rows) tables_requiring_attention.push(...) }
HighSeqScanFinding(rows) ==
  [critical_issues |-> IF Len(rows) > 0 THEN PushIssue(<<>>, HighSeqScanIssue(rows))
                                         ELSE <<>>,
   tables_requiring_attention |-> IF Len(rows) > 0 THEN PushSeqScanRows(<<>>, rows)
                                                    ELSE <<>>]

\* the comprehensive_database_analysis check of sequential scans
ComprehensiveHighSeqScans ==
  /\ rulePc = "reading"
  /\ rule = "high_seq_scan"
  /\ \E rows \in HighSeqScanResults(stat_rows) : finding' = HighSeqScanFinding(rows)
  /\ rulePc' = "reported"
  /\ UNCHANGED <<rule, stat_rows>>
  /\ UNCHANGED otherThanRuleVars

(***************************************************************************)
(* The replication check of getDatabaseHealth.                             *)
(***************************************************************************)
\* 100 * 1024 * 1024 // 100MB
LagThreshold == 100 * 1024 * 1024

\* readable: the role may read the replication views, so the queries succeed
ReplicationStats ==
  [readable : BOOLEAN, is_in_recovery : BOOLEAN,
   replication_slots : 0..MaxStatRows, active_replicas : 0..MaxStatRows,
   max_lag_bytes : {Null, 0, LagThreshold, LagThreshold + 1}]

\* parseInt(lagResult.rows[0].max_lag_bytes || '0', 10)
MaxLagBytes(st) == IF st.max_lag_bytes = Null THEN 0 ELSE st.max_lag_bytes

\* the pushes of the branch if (is_primary && active_replicas > 0)
PrimaryWithReplicasIssues(st) ==
  (IF MaxLagBytes(st) > LagThreshold THEN <<"High replication lag">> ELSE <<>>)
  \o (IF st.replication_slots > st.active_replicas
        THEN <<"Inactive replication slots detected">> ELSE <<>>)

\* try { ... } catch (error) { }: a failed query leaves replication_health
\* undefined and pushes nothing
ReplicationFinding(st) ==
  LET is_primary == ~ st.is_in_recovery
  IN  IF ~ st.readable
        THEN [replication_health |-> "undefined", performance_issues |-> <<>>]
        ELSE IF is_primary /\ st.active_replicas > 0
               THEN [replication_health |-> "with_lag",
                     performance_issues |-> PrimaryWithReplicasIssues(st)]
               ELSE [replication_health |-> "without_lag", performance_issues |-> <<>>]

\* the get_database_health check of replication
HealthReplication ==
  /\ rulePc = "reading"
  /\ rule = "replication"
  /\ finding' = ReplicationFinding(stat_rows)
  /\ rulePc' = "reported"
  /\ UNCHANGED <<rule, stat_rows>>
  /\ UNCHANGED otherThanRuleVars

(***************************************************************************)
(* The bloat estimate of getQueryStatistics.  dead_tuple_percent is kept   *)
(* in hundredths of a percent: the tool reports it with two decimals.      *)
(***************************************************************************)
LiveTupleCounts == {0, 2, 750, 800, 850, 900, 19999, 79996}
DeadTupleCounts == {0, 1, 100, 150, 200, 250, 20004}

TupleStats == [n_live_tup : LiveTupleCounts, n_dead_tup : DeadTupleCounts]

\* Math.round(dead_tuple_percent * 100) / 100, in hundredths: the integers
\* nearest to 10000 * n_dead / total_tup.  The product is a double, so on a tie
\* its rounding error decides which of the two neighbours is returned.
RoundedHundredths(n_dead, total_tup) ==
  IF total_tup > 0
    THEN LET q == (10000 * n_dead) \div total_tup
         IN  { h \in {q, q + 1} :
                 /\ 2 * total_tup * h - 20000 * n_dead <= total_tup
                 /\ 20000 * n_dead - 2 * total_tup * h <= total_tup }
    ELSE {0}

\* if (dead_tuple_percent >= 20) 'High' else if (dead_tuple_percent >= 10) 'Moderate'
BloatDescriptionInclusive(n_dead, total_tup) ==
  IF total_tup > 0 /\ 100 * n_dead >= 20 * total_tup THEN "High"
  ELSE IF total_tup > 0 /\ 100 * n_dead >= 10 * total_tup THEN "Moderate"
  ELSE "Low"

\* let bloat_description = 'Low'; if (dead_tuple_percent > 20) 'High';
\* else if (dead_tuple_percent > 10) 'Moderate', on the unrounded
\* dead_tuple_percent = total_tup > 0 ? (n_dead / total_tup) * 100 : 0
BloatDescription(n_dead, total_tup) ==
  IF total_tup > 0 /\ 100 * n_dead > 20 * total_tup THEN "High"
  ELSE IF total_tup > 0 /\ 100 * n_dead > 10 * total_tup THEN "Moderate"
  ELSE "Low"

\* the bloat_estimate of get_query_statistics
QueryStatisticsBloatEstimate ==
  /\ rulePc = "reading"
  /\ rule = "bloat_estimate"
  /\ LET total_tup == stat_rows.n_live_tup + stat_rows.n_dead_tup
     IN  \E h \in RoundedHundredths(stat_rows.n_dead_tup, total_tup) :
           finding' = [dead_tuple_percent |-> h,
                       estimated_bloat |-> BloatDescription(stat_rows.n_dead_tup, total_tup)]
  /\ rulePc' = "reported"
  /\ UNCHANGED <<rule, stat_rows>>
  /\ UNCHANGED otherThanRuleVars

\* the statistics a check can meet
StatRowsOf(r) ==
  IF r \in UnusedIndexRules THEN ListsUpTo(CatalogIndexes, MaxStatRows)
  ELSE IF r = "high_seq_scan" THEN ListsUpTo(TableStats, MaxStatRows)
  ELSE IF r = "replication" THEN ReplicationStats
  ELSE TupleStats

Rules == UnusedIndexRules \cup {"high_seq_scan", "replication", "bloat_estimate"}

InitRules ==
  /\ rulePc = "reading"
  /\ rule \in Rules
  /\ stat_rows \in StatRowsOf(rule)
  /\ finding = <<>>
  /\ AnalysisIdle
  /\ IndexesIdle
  /\ QueryIdle
  /\ ServerIdle
  /\ ToolIdle
  /\ FirstCall

NextRules ==
  \/ ComprehensiveUnusedIndexes
  \/ HealthUnusedIndexes
  \/ StrategiesUnusedIndexes
  \/ ComprehensiveHighSeqScans
  \/ HealthReplication
  \/ QueryStatisticsBloatEstimate

SpecRules == InitRules /\ [][NextRules]_vars

\* the check has put its finding into the result
Reported(r) == rulePc = "reported" /\ rule = r

(***************************************************************************)
(* C22.  An index contributes to an unused-index finding of                *)
(* comprehensive_database_analysis, of get_database_health and of          *)
(* suggest_indexing_strategies if and only if its scan count is 0 and it   *)
(* is neither a primary-key index nor a unique index; the database-wide    *)
(* issue has severity high and comes with no table attention entry.        *)
(* Violated: the two database-wide counts take every index with            *)
(* idx_scan = 0, primary-key and unique indexes included.                  *)
(***************************************************************************)
\* the indexes the rule of the table of thresholds selects
UnusedByRule(indexes) ==
  { i \in 1..Len(indexes) :
      /\ indexes[i].idx_scan = 0
      /\ ~ indexes[i].is_primary
      /\ ~ indexes[i].is_unique }

\* the database-wide issue is a high one and no attention entry comes with it
UnusedIssueIsHighAndTableless ==
  /\ \A i \in DOMAIN finding.critical_issues : finding.critical_issues[i].severity = "high"
  /\ finding.tables_requiring_attention = <<>>

C22_UnusedIffNeverScannedAndNotKeyOrUnique ==
  /\ Reported("comprehensive_unused") =>
       /\ finding.unused_count = Cardinality(UnusedByRule(stat_rows))
       /\ (finding.critical_issues # <<>>) <=> (UnusedByRule(stat_rows) # {})
       /\ UnusedIssueIsHighAndTableless
  /\ Reported("health_unused") =>
       /\ finding.unused_count = Cardinality(UnusedByRule(stat_rows))
       /\ (finding.performance_issues # <<>>) <=> (UnusedByRule(stat_rows) # {})
  /\ Reported("strategies_unused") =>
       Range(finding.unused_indexes) = UnusedByRule(stat_rows)

\* what does hold: the database-wide counts take exactly the indexes never
\* scanned, the issue is a high one without attention entry, and the list of
\* suggest_indexing_strategies leaves out every unique index
C22_CountsEveryNeverScannedIndex ==
  /\ Reported("comprehensive_unused") =>
       /\ finding.unused_count = CountIdxScanZero(stat_rows)
       /\ (finding.critical_issues # <<>>) <=> (CountIdxScanZero(stat_rows) > 0)
       /\ UnusedIssueIsHighAndTableless
  /\ Reported("health_unused") =>
       finding.unused_count = CountIdxScanZero(stat_rows)
  /\ Reported("strategies_unused") =>
       \A i \in Range(finding.unused_indexes) :
         /\ stat_rows[i].idx_scan = 0
         /\ ~ stat_rows[i].is_unique
         /\ ~ stat_rows[i].is_primary

(***************************************************************************)
(* C23.  comprehensive_database_analysis emits a high-sequential-scan      *)
(* finding for a table if and only if seq_scan > 100 and (idx_scan = 0 or  *)
(* seq_scan > 2 * idx_scan) and live_rows > 1000; the issue has severity   *)
(* critical and every such table gets an attention entry with priority     *)
(* critical; seq_scan = 500, idx_scan = 10, live_rows = 5000 is flagged    *)
(* and a table with seq_scan = 50 never is.  The condition is one on       *)
(* numbers: a table whose idx_scan holds no value does not meet it.        *)
(***************************************************************************)
OverSeqScanThresholds(t) ==
  /\ t.seq_scan > 100
  /\ t.idx_scan # Null /\ (t.idx_scan = 0 \/ t.seq_scan > 2 * t.idx_scan)
  /\ t.n_live_tup > 1000

\* the tables of the catalog the attention entries of the finding name
SeqScanFlaggedTables ==
  { k \in 1..Len(stat_rows) :
      \E i \in DOMAIN finding.tables_requiring_attention :
        /\ finding.tables_requiring_attention[i].schema = Table(k).schemaname
        /\ finding.tables_requiring_attention[i].table = Table(k).relname }

ReplicationRead == Reported("replication") /\ stat_rows.readable

InactiveSlotsReported ==
  "Inactive replication slots detected" \in Range(finding.performance_issues)

LagReported == "High replication lag" \in Range(finding.performance_issues)

\* primary, at least one active replica, lag above 100 MB
LagOverThreshold ==
  /\ ~ stat_rows.is_in_recovery
  /\ stat_rows.active_replicas > 0
  /\ stat_rows.max_lag_bytes # Null
  /\ stat_rows.max_lag_bytes > 100 * 1024 * 1024

C24_InactiveSlotsWheneverMoreSlotsThanReplicas ==
  ReplicationRead =>
    /\ stat_rows.replication_slots > stat_rows.active_replicas => InactiveSlotsReported
    /\ LagReported <=> LagOverThreshold

\* what does hold: lag is reported exactly on a primary with an active replica
\* and more than 100 MB of lag, and inactive slots are reported exactly when,
\* on such a primary, slots outnumber the active replicas
C24_ReportsOnlyOnPrimaryWithReplicas ==
  ReplicationRead =>
    /\ LagReported <=> LagOverThreshold
    /\ InactiveSlotsReported <=>
         /\ ~ stat_rows.is_in_recovery
         /\ stat_rows.active_replicas > 0
         /\ stat_rows.replication_slots > stat_rows.active_replicas

(***************************************************************************)
(* C25.  get_query_statistics computes dead_tuple_percent as               *)
(* 100 * dead / (live + dead), 0 when live + dead = 0, and labels          *)
(* estimated_bloat "High" iff the percentage is > 20, "Moderate" iff it is *)
(* > 10 and <= 20, and "Low" otherwise; dead = 150, live = 850 gives 15    *)
(* and "Moderate", dead = 250, live = 750 gives "High", exactly 10% gives  *)
(* "Low" and exactly 20% gives "Moderate".                                 *)
(* Violated as it stands: the dead_tuple_percent of the result is the      *)
(* percentage rounded to two decimals, while the label is decided on the   *)
(* unrounded percentage.                                                   *)
(***************************************************************************)
BloatReported == Reported("bloat_estimate")

n_dead == stat_rows.n_dead_tup

total_tup == stat_rows.n_live_tup + stat_rows.n_dead_tup

\* the label the thresholds give to a percentage p / q
LabelOf(p, q) ==
  IF p > 20 * q THEN "High" ELSE IF p > 10 * q THEN "Moderate" ELSE "Low"

\* the four cases the claim names
BloatScenarios ==
  /\ (n_dead = 150 /\ total_tup = 1000) =>
       finding.dead_tuple_percent = 1500 /\ finding.estimated_bloat = "Moderate"
  /\ (n_dead = 250 /\ total_tup = 1000) => finding.estimated_bloat = "High"
  /\ (total_tup > 0 /\ 100 * n_dead = 10 * total_tup) => finding.estimated_bloat = "Low"
  /\ (total_tup > 0 /\ 100 * n_dead = 20 * total_tup) => finding.estimated_bloat = "Moderate"

\* the statement as it stands: the reported dead_tuple_percent (in hundredths)
\* is the percentage itself and the label follows from it
C25_ExactPercentAndLabel ==
  BloatReported =>
    /\ IF total_tup > 0
         THEN finding.dead_tuple_percent * total_tup = 10000 * n_dead
         ELSE finding.dead_tuple_percent = 0
    /\ finding.estimated_bloat = LabelOf(finding.dead_tuple_percent, 100)
    /\ BloatScenarios

\* amended: the reported dead_tuple_percent is the percentage rounded to two
\* decimals (at most 0.005 away from it), 0 when live + dead = 0, and the
\* label is the one the thresholds give to the unrounded percentage
C25_RoundedPercentAndLabelOfUnrounded ==
  BloatReported =>
    /\ IF total_tup > 0
         THEN /\ 2 * total_tup * finding.dead_tuple_percent - 20000 * n_dead <= total_tup
              /\ 20000 * n_dead - 2 * total_tup * finding.dead_tuple_percent <= total_tup
         ELSE finding.dead_tuple_percent = 0
    /\ finding.estimated_bloat =
         IF total_tup > 0 THEN LabelOf(100 * n_dead, total_tup) ELSE "Low"
    /\ BloatScenarios

\* 20.004% of dead tuples: reported as 20 and labelled "High"
C25_Witness ==
  /\ BloatReported
  /\ n_dead = 20004
  /\ total_tup = 100000
  /\ finding.dead_tuple_percent = 2000
  /\ finding.estimated_bloat = "High"

(***************************************************************************)
(* C26.  In every get_database_health result, recommendations is exactly   *)
(* the single default "looks good" message if and only if no performance   *)
(* issue was detected; with at least one performance issue the default     *)
(* message is absent and recommendations holds exactly one entry per entry *)
(* of performance_issues, so recommendations is never empty.               *)
(***************************************************************************)
HealthReturned == tool = "get_database_health" /\ toolPc = "returned"

C26_LooksGoodIffNoIssue ==
  HealthReturned =>
    /\ (recommendations = <<LooksGood>>) <=> (performance_issues = <<>>)
    /\ performance_issues # <<>> =>
         /\ LooksGood \notin Range(recommendations)
         /\ Len(recommendations) = Len(performance_issues)
         /\ \A i \in DOMAIN performance_issues : recommendations[i] = performance_issues[i]
    /\ recommendations # <<>>

\* a result with several issues, found although the replication check was skipped
C26_Witness ==
  /\ HealthReturned
  /\ Len(performance_issues) >= 2
  /\ Len(recommendations) = Len(performance_issues)
  /\ query_failures # <<>>

(***************************************************************************)
(* Part 7: comprehensiveDatabaseAnalysis called twice in one process       *)
(* (SpecRerun).  The first call is the one of Part 1, against a database   *)
(* without invalid constraints and sequences at risk, which the handler    *)
(* does not read; the second call is given, query by query, the rows the   *)
(* first one was given.                                                    *)
(***************************************************************************)

\* the array is declared outside the handler: a call finds what the last left
KeptArray(left) == left

\* const critical_issues = [], const tables_requiring_attention = [],
\* const quick_wins = [] inside the handler: every call has new, empty arrays
NewArray(left) == <<>>

\* the rows the queries of the call have returned
RowsGiven ==
  [unusedIndexCount |-> unusedIndexCount, highSeqScanRows |-> highSeqScanRows,
   unindexedFKCount |-> unindexedFKCount, bloatedRows |-> bloatedRows,
   neverAnalyzedRows |-> neverAnalyzedRows]

\* the object the handler returns
Report ==
  [overall_health_score |-> health_score, critical_issues_count |-> criticalCount,
   warnings |-> warningCount, critical_issues |-> critical_issues,
   tables_requiring_attention |-> tables_requiring_attention,
   quick_wins |-> quick_wins, analysis_workflow |-> analysis_workflow]

InitRerun ==
  /\ Init
  /\ invalid_constraints = 0
  /\ sequences_at_risk = 0

\* a step of the first call
FirstRun ==
  /\ run = 1
  /\ Next

\* the first call has returned and the tool is called again
CallAgain ==
  /\ run = 1
  /\ pc = "done"
  /\ run' = 2
  /\ first_report' = [rows |-> RowsGiven, report |-> Report]
  /\ pc' = "size"
  /\ critical_issues' = NewArray(critical_issues)
  /\ tables_requiring_attention' = NewArray(tables_requiring_attention)
  /\ quick_wins' = NewArray(quick_wins)
  /\ unusedIndexCount' = 0
  /\ highSeqScanRows' = <<>>
  /\ unindexedFKCount' = 0
  /\ bloatedRows' = <<>>
  /\ neverAnalyzedRows' = <<>>
  /\ health_score' = InitialScore
  /\ criticalCount' = 0
  /\ warningCount' = 0
  /\ analysis_workflow' = <<>>
  /\ UNCHANGED <<invalid_constraints, sequences_at_risk>>
  /\ UNCHANGED otherThanRerunVars

\* a step of the second call: each query returns what it returned to the first
SecondRun ==
  /\ run = 2
  /\ \/ QuerySize
     \/ CheckUnusedIndexes /\ unusedIndexCount' = first_report.rows.unusedIndexCount
     \/ CheckHighSeqScans /\ highSeqScanRows' = first_report.rows.highSeqScanRows
     \/ CheckUnindexedFKs /\ unindexedFKCount' = first_report.rows.unindexedFKCount
     \/ CheckBloatedTables /\ bloatedRows' = first_report.rows.bloatedRows
     \/ CheckNeverAnalyzed /\ neverAnalyzedRows' = first_report.rows.neverAnalyzedRows

NextRerun ==
  \/ FirstRun
  \/ CallAgain
  \/ SecondRun

SpecRerun == InitRerun /\ [][NextRerun]_vars

\* the second call has returned
ReturnedAgain == run = 2 /\ pc = "done"

(***************************************************************************)
(* C27.  Two runs of comprehensive_database_analysis that receive          *)
(* identical row sets from every catalog query produce identical reports   *)
(* (same health score, same issues in the same order, same attention       *)
(* entries in the same order, same workflow steps with the same step       *)
(* numbers); the second run's result does not depend on anything left      *)
(* behind by the first run.                                                *)
(***************************************************************************)
C27_SameRowsSameReport ==
  (ReturnedAgain /\ RowsGiven = first_report.rows) =>
    /\ health_score = first_report.report.overall_health_score
    /\ critical_issues = first_report.report.critical_issues
    /\ tables_requiring_attention = first_report.report.tables_requiring_attention
    /\ analysis_workflow = first_report.report.analysis_workflow
    /\ Report = first_report.report

\* a second report with issues, attention entries of several tables and a
\* workflow, after a first call that left the same behind
C27_Witness ==
  /\ ReturnedAgain
  /\ RowsGiven = first_report.rows
  /\ Len(first_report.report.critical_issues) >= 3
  /\ Len(critical_issues) >= 3
  /\ Len(tables_requiring_attention) >= 2
  /\ Len(analysis_workflow) >= 5
  /\ health_score < InitialScore

(***************************************************************************)
(* C29.  The server handles no tool or resource request before startup has *)
(* found DATABASE_URL set and the connection test has succeeded: if        *)
(* DATABASE_URL is missing or the connection test fails, the process exits *)
(* with code 1 without ever connecting the stdio transport, and the        *)
(* transport is connected only after all request handlers are registered.  *)
(***************************************************************************)
\* startup cannot succeed: no DATABASE_URL, or the test query cannot be answered
StartupMustFail == ~ database_url \/ ~ database_reachable

NoRequestBeforeStartupSucceeded ==
  /\ (in_flight > 0 \/ handled > 0) =>
       database_url /\ database_reachable /\ transport_connected
  /\ StartupMustFail => ~ transport_connected /\ exit_code \in {-1, 1}
  /\ (serverPc = "connecting" \/ transport_connected) => handlers_registered

C29_NoRequestBeforeStartupSucceeded ==
  /\ [] NoRequestBeforeStartupSucceeded
  /\ StartupMustFail ~> (serverPc = "exited" /\ exit_code = 1)

\* the connection test has failed and the process has exited with 1, the pool
\* created and the transport never connected
C29_Witness ==
  /\ database_url
  /\ ~ database_reachable
  /\ pool = "open"
  /\ serverPc = "exited"
  /\ exit_code = 1
  /\ ~ transport_connected
  /\ ~ handlers_registered

(***************************************************************************)
(* C30.  At most one connection pool exists at any time and a pool is      *)
(* ended at most once: for every interleaving of shutdown signals (SIGINT  *)
(* and SIGTERM both delivered, the second while the first cleanup is still *)
(* awaiting pool.end()) and of in-flight tool calls, pool.end() is never   *)
(* invoked twice on the same pool and no request is given to a pool whose  *)
(* end() has already been invoked.                                         *)
(* Violated: closePool clears pool only after pool.end() has resolved, so  *)
(* a second signal finds the pool set and ends it again, and a request     *)
(* that arrives meanwhile is handled with the pool that is ending.         *)
(***************************************************************************)
C30_PoolEndedAtMostOnce ==
  /\ end_calls <= 1
  /\ pool = "ending" => in_flight = 0

\* what does hold: pool.end() is invoked once for each signal, the first one
\* finding the pool untouched
C30_OneEndPerSignal ==
  /\ end_calls = signals
  /\ pool = "open" => signals = 0

====
